---------------------------- MODULE Spec2Model ----------------------------
(***************************************************************************)
(* A model of the protocol engine of the weechat matrix script             *)
(* (src/matrix.py): the connection life cycle, the send/receive queues,    *)
(* the sync loop and the application of sync batches to the rooms.         *)
(*                                                                         *)
(* The script is single threaded: every callback (connect_cb, receive_cb,  *)
(* matrix_timer_cb, reconnect_cb, room_input_cb, the /matrix command) runs *)
(* to completion.  Each callback is one action.  The python functions are  *)
(* operators from a world record (the MatrixServer object, the weechat     *)
(* host, the homeserver and a trace of what the running callback did) to   *)
(* the world after the call.                                               *)
(*                                                                         *)
(* matrix.socket (disconnect, send, send_or_queue), matrix.api             *)
(* (MatrixMessage) and matrix.server (MatrixServer) are imported by        *)
(* src/matrix.py and are not part of it; they are modelled from spec.md.   *)
(***************************************************************************)
EXTENDS Integers, Sequences, FiniteSets, TLC

VARIABLES server, weechat, homeserver, trace, SERVERS

vars == <<server, weechat, homeserver, trace, SERVERS>>

---------------------------------------------------------------------------
(* Bounds of the model.                                                    *)

\* requests alive at once in send_queue and receive_queue together
MaxQueue == 2

\* messages the user sends from a room buffer in one behaviour
MaxSends == 1

\* largest sync cursor the homeserver hands out (0 stands for the empty one)
MaxBatch == 2

\* events in one event list of a sync batch
MaxEvents == 3

\* body fragments buffered for one response before its last chunk
MaxChunks == 1

\* failed connects in a row (reconnect_count is capped by the guards here)
MaxReconnect == 3

\* connection attempts (W.hook_connect) and backoff timers outstanding at once
MaxHooks == 1

\* reads of one callback, and body fragments of one response, where the
\* delivery of a response in pieces is followed
MaxReads == 3

\* the connection attempts and backoff timers pending together, where the
\* attempts are counted
MaxAttempts == 2

---------------------------------------------------------------------------
(* Values.                                                                 *)

RoomIds == {"!r"}

UserIds == {"@me", "@a"}

\* server.user_id after login
OwnUserId == "@me"

\* the name of the server whose callbacks are followed, and the names a
\* server command can be given; SERVERS holds the names in the registry
ServerName == "s"

ServerNames == {"s", "t"}

MessageTypes == {"LOGIN", "SYNC", "SEND", "STATE", "REDACT", "ROOM_MSG"}

\* W.WEECHAT_HOOK_CONNECT_OK and one representative of the failure statuses
ConnectStatuses == {"OK", "CONNECTION_REFUSED"}

\* 200, 403, 504 and one representative of every other status
HttpStatuses == {200, 403, 504, 500}

\* reconnect(): timeout = reconnect_count * 5 * 1000 (milliseconds)
ReconnectUnitMs == 5000

---------------------------------------------------------------------------
(* The trace of the running callback: what it transmitted, paired,         *)
(* rendered and printed.  It is cleared when a callback starts.            *)

Ev(op, kind, n) == [op |-> op, kind |-> kind, n |-> n]

Log(w, op, kind, n) == [w EXCEPT !.trace.ev = Append(@, Ev(op, kind, n))]

\* an exception that leaves the callback: the rest of the callback is skipped
Raise(w, what) == [Log(w, "raise", what, 0) EXCEPT !.trace.raised = what]

Raised(w) == w.trace.raised # ""

Range(f) == {f[i] : i \in DOMAIN f}

SeqsUpTo(S, n) == UNION {[1..k -> S] : k \in 0..n}

---------------------------------------------------------------------------
(* matrix.api.MatrixMessage: a request of a kind, stamped at creation and  *)
(* carrying the cursor (for a SYNC), the room and the transaction (for a   *)
(* SEND) it was built with.  creation_time and send_time are compared, not *)
(* measured: a new stamp is later than the stamps of the requests alive.   *)

Max(S) == IF S = {} THEN 0 ELSE CHOOSE x \in S : \A y \in S : y <= x

Alive(w) == Range(w.server.send_queue) \cup Range(w.server.receive_queue)

MatrixMessage(w, type, room_id, txn_id) ==
    [ type          |-> type,
      creation_time |-> Max({m.creation_time : m \in Alive(w)}) + 1,
      next_batch    |-> IF type = "SYNC" THEN w.server.next_batch ELSE 0,
      room_id       |-> room_id,
      txn_id        |-> txn_id,
      send_time     |-> 0 ]

NoMessage ==
    [ type          |-> "",
      creation_time |-> 0,
      next_batch    |-> 0,
      room_id       |-> "",
      txn_id        |-> 0,
      send_time     |-> 0 ]

---------------------------------------------------------------------------
(* matrix.socket                                                           *)

\* server.reset_parser(): the accumulator is emptied
reset_parser(w) ==
    [w EXCEPT !.server.http_buffer = <<>>,
              !.server.parser_next = 0,
              !.trace.ev = Append(@, [op |-> "reset_parser", kind |-> "",
                                       n |-> 0])]

\* disconnect(server): the fd hook is removed, the socket released, the
\* state is Disconnected; the parse state and the transmitted-but-unanswered
\* slot are discarded, the queued requests stay.  What the homeserver was
\* delivering on the connection is gone with it.
disconnect(w) ==
    LET w1 == [w EXCEPT !.server.fd_hook       = FALSE,
                        !.server.socket        = "none",
                        !.server.connected     = FALSE,
                        !.server.receive_queue = <<>>,
                        !.homeserver.fragments = 0,
                        !.homeserver.taken     = 0]
    IN  Log(reset_parser(w1), "prnt_disconnected", "", 0)

\* the requests waiting in send_queue that were created before message
OlderWaiting(w, message) ==
    Cardinality({i \in DOMAIN w.server.send_queue :
                    w.server.send_queue[i].creation_time
                        < message.creation_time})

\* send(server, message): ok says whether sendall() succeeds.  A transmitted
\* request joins receive_queue; the homeserver has the event of a transmitted
\* SEND, whose id is the transaction's.
\* A write error tears the connection down.  The result is in trace.ret.
send(w, message, ok) ==
    IF ok /\ w.server.socket = "open"
    THEN LET sent == [message EXCEPT !.send_time =
                         Max({m.send_time :
                                 m \in Range(w.server.receive_queue)}) + 1]
             w1 == [w EXCEPT !.server.receive_queue = Append(@, sent),
                             !.trace.ret = TRUE,
                             !.homeserver.unsynced =
                                 IF message.type = "SEND"
                                 THEN @ \cup {message.txn_id} ELSE @]
         IN  Log(w1, "tx", message.type, OlderWaiting(w, message))
    ELSE [disconnect(Log(w, "tx_failed", message.type, 0))
             EXCEPT !.trace.ret = FALSE]

\* send_or_queue(server, message): a connection with nothing waiting to be
\* transmitted sends at once; otherwise, and when sending fails, the request
\* waits at the end of send_queue.
send_or_queue(w, message, ok) ==
    IF w.server.send_queue = <<>>
    THEN LET w1 == send(w, message, ok)
         IN  IF w1.trace.ret
             THEN w1
             ELSE [w1 EXCEPT !.server.send_queue = Append(@, message)]
    ELSE [w EXCEPT !.server.send_queue = Append(@, message)]

---------------------------------------------------------------------------
(* Events of a sync batch, as the handlers read them.  Every key a handler *)
(* reads is present; an absent display name or room name is the empty      *)
(* string, which the handlers test with "if not ...".                      *)

NoLevels == [u \in {} |-> 0]

BaseEvent(type, event_id, sender) ==
    [ type        |-> type,
      event_id    |-> event_id,
      sender      |-> sender,
      membership  |-> "",
      displayname |-> "",
      value       |-> "",
      redacts     |-> 0,
      users       |-> NoLevels,
      msgtype     |-> "",
      redacted    |-> FALSE,
      age         |-> 0 ]

TextMessage(event_id, sender) ==
    [BaseEvent("m.room.message", event_id, sender) EXCEPT !.msgtype = "m.text"]

Membership(event_id, sender, membership, displayname) ==
    [BaseEvent("m.room.member", event_id, sender)
        EXCEPT !.membership = membership, !.displayname = displayname]

RoomName(event_id, sender, name) ==
    [BaseEvent("m.room.name", event_id, sender) EXCEPT !.value = name]

\* an m.room.redaction event: redacts is the id of the event it removes
Redaction(event_id, sender, redacts) ==
    [BaseEvent("m.room.redaction", event_id, sender) EXCEPT !.redacts = redacts]

\* strip_matrix_server(full_name)[1:] of the user ids of the model
ShortName(full_name) ==
    CASE full_name = "@me" -> "me"
      [] full_name = "@a"  -> "a"
      [] OTHER             -> full_name

MatrixUser(name, display_name) ==
    [ name         |-> name,
      display_name |-> display_name,
      power_level  |-> 0,
      nick_color   |-> "",
      prefix       |-> "" ]

MatrixRoom(room_id) ==
    [ room_id    |-> room_id,
      alias      |-> room_id,
      topic      |-> "",
      prev_batch |-> 0,
      users      |-> [u \in {} |-> MatrixUser("", "")],
      encrypted  |-> FALSE ]

\* dict[key] = value, and del dict[key]
DictSet(d, k, v) == [x \in DOMAIN d \cup {k} |-> IF x = k THEN v ELSE d[x]]

DictDel(d, k) == [x \in DOMAIN d \ {k} |-> d[x]]

\* list.remove(x): the first occurrence goes
RECURSIVE RemoveFirst(_, _)
RemoveFirst(seq, x) ==
    IF seq = <<>> THEN <<>>
    ELSE IF Head(seq) = x THEN Tail(seq)
    ELSE <<Head(seq)>> \o RemoveFirst(Tail(seq), x)

\* date_from_age(age): int(now - age / 1000), the clock kept in milliseconds
date_from_age(w, age) == (w.weechat.clock - age) \div 1000

\* W.prnt_date_tags(buf, date, tags, data): one more line in the room buffer
prnt_date_tags(w, room_id, date, tags, event_id, message) ==
    LET line == [date |-> date, tags |-> tags, event_id |-> event_id,
                 message |-> message]
        w1 == [w EXCEPT !.weechat.lines[room_id] = Append(@, line)]
    IN  Log(w1, "render", room_id, event_id)

matrix_create_room_buffer(w, room_id) ==
    [w EXCEPT !.weechat.lines = DictSet(@, room_id, <<>>),
              !.server.rooms  = DictSet(@, room_id, MatrixRoom(room_id))]

matrix_handle_room_members(w, room_id, event) ==
    LET room == w.server.rooms[room_id]
        full_name == event.sender
    IN  IF event.membership = "join"
        THEN LET short_name == ShortName(full_name)
                 display_name == IF event.displayname = ""
                                 THEN short_name ELSE event.displayname
                 user == [MatrixUser(short_name, display_name) EXCEPT
                             !.nick_color =
                                 IF full_name = w.server.user_id
                                 THEN "weechat.color.chat_nick_self"
                                 ELSE "nick_color"]
             IN  [w EXCEPT !.server.rooms[room_id].users =
                               DictSet(@, full_name, user)]
        ELSE IF event.membership = "leave"
        THEN IF full_name \in DOMAIN room.users
             THEN [w EXCEPT !.server.rooms[room_id].users =
                               DictDel(@, full_name)]
             ELSE w
        ELSE w

matrix_handle_room_text_message(w, room_id, event, old) ==
    prnt_date_tags(w, room_id, date_from_age(w, event.age),
                   {"matrix_message", "notify_message"}
                       \cup (IF old THEN {"no_log", "no_highlight"}
                                    ELSE {"log1"}),
                   event.event_id, <<"text">>)

matrix_handle_redacted_message(w, room_id, event) ==
    prnt_date_tags(w, room_id, date_from_age(w, event.age),
                   {"matrix_message", "matrix_redacted", "notify_message",
                    "no_highlight"},
                   event.event_id, <<"notice">>)

matrix_handle_room_messages(w, room_id, event, old) ==
    IF event.type = "m.room.message"
    THEN IF event.redacted
         THEN matrix_handle_redacted_message(w, room_id, event)
         ELSE IF event.msgtype = "m.text"
         THEN matrix_handle_room_text_message(w, room_id, event, old)
         ELSE Log(w, "prnt_content_not_implemented", "", event.event_id)
    ELSE w

get_prefix_for_level(level) ==
    IF level >= 100 THEN "&"
    ELSE IF level >= 50 THEN "@"
    ELSE IF level > 0 THEN "+"
    ELSE ""

matrix_handle_room_power_levels(w, room_id, event) ==
    LET users == w.server.rooms[room_id].users
    IN  [w EXCEPT !.server.rooms[room_id].users =
            [u \in DOMAIN users |->
                IF u \in DOMAIN event.users
                THEN [users[u] EXCEPT
                         !.power_level = event.users[u],
                         !.prefix = get_prefix_for_level(event.users[u])]
                ELSE users[u]]]

UnimportantEvents ==
    {"m.room.create", "m.room.join_rules", "m.room.history_visibility",
     "m.room.canonical_alias", "m.room.guest_access",
     "m.room.third_party_invite"}

\* the redaction notice replaces, follows or strikes the rendered text
redacted_message(redaction_type, message) ==
    CASE redaction_type = "STRIKETHROUGH" -> <<"strike">> \o message \o <<"notice">>
      [] redaction_type = "DELETE"        -> <<"notice">>
      [] redaction_type = "NOTICE"        -> message \o <<"notice">>
      [] OTHER                            -> message

matrix_redact_line(w, room_id, i, event) ==
    [w EXCEPT !.weechat.lines[room_id][i] =
        [@ EXCEPT !.tags = @ \cup {"matrix_new_redacted"},
                  !.message = redacted_message(w.weechat.redaction_type, @)]]

\* a redaction that does not look at the tags of the line it found
matrix_handle_room_redaction_again(w, room_id, event) ==
    LET lines == w.weechat.lines[room_id]
        hits  == {i \in DOMAIN lines : lines[i].event_id = event.redacts}
    IN  IF hits = {} THEN w
        ELSE LET i == CHOOSE j \in hits : \A k \in hits : k <= j
             IN  matrix_redact_line(w, room_id, i, event)

\* the last line of the buffer whose matrix_id tag is the redacted event's
matrix_handle_room_redaction(w, room_id, event) ==
    LET lines == w.weechat.lines[room_id]
        hits  == {i \in DOMAIN lines : lines[i].event_id = event.redacts}
    IN  IF hits = {} THEN w
        ELSE LET i == CHOOSE j \in hits : \A k \in hits : k <= j
             IN  IF /\ "matrix_redacted" \notin lines[i].tags
                    /\ "matrix_new_redacted" \notin lines[i].tags
                 THEN matrix_redact_line(w, room_id, i, event)
                 ELSE w

matrix_handle_room_topic(w, room_id, event) ==
    LET w1 == [w EXCEPT !.server.rooms[room_id].topic = event.value]
    IN  prnt_date_tags(w1, room_id, date_from_age(w, event.age),
                       {"matrix_topic", "no_highlight", "log3"},
                       event.event_id, <<"topic">>)

matrix_handle_room_aliases(w, room_id, event) ==
    IF event.value = "" THEN w
    ELSE [w EXCEPT !.server.rooms[room_id].alias = event.value]

\* one event of matrix_handle_room_events, past the ignore list and other
\* than an m.room.name event
room_event(w, room_id, event) ==
    CASE event.type = "m.room.aliases" ->
            matrix_handle_room_aliases(w, room_id, event)
      [] event.type = "m.room.member" ->
            matrix_handle_room_members(w, room_id, event)
      [] event.type = "m.room.message" ->
            matrix_handle_room_messages(w, room_id, event, FALSE)
      [] event.type = "m.room.topic" ->
            matrix_handle_room_topic(w, room_id, event)
      [] event.type = "m.room.redaction" ->
            matrix_handle_room_redaction(w, room_id, event)
      [] event.type = "m.room.power_levels" ->
            IF DOMAIN event.users = {} THEN w
            ELSE matrix_handle_room_power_levels(w, room_id, event)
      [] event.type \in UnimportantEvents -> w
      [] event.type = "m.room.encryption" ->
            Log([w EXCEPT !.server.rooms[room_id].encrypted = TRUE],
                "prnt_room_encrypted", "", event.event_id)
      [] event.type = "m.room.encrypted" -> w
      [] OTHER ->
            Log(w, "prnt_event_not_implemented", "", event.event_id)

\* a loop that gives the batch up at an event of a type it does not know
RECURSIVE room_events_until_unknown(_, _, _, _)
room_events_until_unknown(w, room_id, room_events, i) ==
    IF i > Len(room_events) THEN w
    ELSE LET event == room_events[i]
             w1 == room_event(w, room_id, event)
         IN  IF event.event_id \in Range(w.server.ignore_event_list)
             THEN room_events_until_unknown(
                      [w EXCEPT !.server.ignore_event_list =
                                    RemoveFirst(@, event.event_id)],
                      room_id, room_events, i + 1)
             ELSE IF event.type = "m.room.name"
             THEN IF event.value = "" THEN w
                  ELSE room_events_until_unknown(
                           [w EXCEPT !.server.rooms[room_id].alias =
                                         event.value],
                           room_id, room_events, i + 1)
             ELSE IF /\ Len(w1.trace.ev) > Len(w.trace.ev)
                     /\ w1.trace.ev[Len(w1.trace.ev)].op
                            = "prnt_event_not_implemented"
             THEN w1
             ELSE room_events_until_unknown(w1, room_id, room_events, i + 1)

\* the loop of matrix_handle_room_events from the i-th event on: an ignored
\* id is consumed and its event skipped; an m.room.name event with an empty
\* name returns from the function
RECURSIVE room_events_from(_, _, _, _)
room_events_from(w, room_id, room_events, i) ==
    IF i > Len(room_events) THEN w
    ELSE LET event == room_events[i]
         IN  IF event.event_id \in Range(w.server.ignore_event_list)
             THEN room_events_from(
                      [w EXCEPT !.server.ignore_event_list =
                                    RemoveFirst(@, event.event_id)],
                      room_id, room_events, i + 1)
             ELSE IF event.type = "m.room.name"
             THEN IF event.value = "" THEN w
                  ELSE room_events_from(
                           [w EXCEPT !.server.rooms[room_id].alias =
                                         event.value],
                           room_id, room_events, i + 1)
             ELSE room_events_from(room_event(w, room_id, event),
                                   room_id, room_events, i + 1)

matrix_handle_room_events(w, room_id, room_events) ==
    room_events_from(w, room_id, room_events, 1)

\* an invite handler that opens a buffer for the invited room
RECURSIVE matrix_handle_invite_events_joining(_, _, _)
matrix_handle_invite_events_joining(w, room_id, events) ==
    IF events = <<>>
    THEN IF room_id \in DOMAIN w.weechat.lines THEN w
         ELSE matrix_create_room_buffer(w, room_id)
    ELSE LET event == Head(events)
             w1 == IF /\ event.type = "m.room.member"
                      /\ event.membership = "invite"
                   THEN Log(w, "prnt_invited", "", event.event_id)
                   ELSE w
         IN  matrix_handle_invite_events_joining(w1, room_id, Tail(events))

RECURSIVE matrix_handle_invite_events(_, _, _)
matrix_handle_invite_events(w, room_id, events) ==
    IF events = <<>> THEN w
    ELSE LET event == Head(events)
             w1 == IF /\ event.type = "m.room.member"
                      /\ event.membership = "invite"
                   THEN Log(w, "prnt_invited", "", event.event_id)
                   ELSE w
         IN  matrix_handle_invite_events(w1, room_id, Tail(events))

\* a joined room that takes the backlog cursor of every batch
room_info_join_overwrites(w, section) ==
    LET room_id == section.room_id
        w1 == IF room_id \notin DOMAIN w.weechat.lines
              THEN matrix_create_room_buffer(w, room_id) ELSE w
        w2 == [w1 EXCEPT !.server.rooms[room_id].prev_batch =
                             section.prev_batch]
        w3 == matrix_handle_room_events(w2, room_id, section.state)
    IN  matrix_handle_room_events(w3, room_id, section.timeline)

\* one joined room of a sync batch
room_info_join(w, section) ==
    LET room_id == section.room_id
        w1 == IF room_id \notin DOMAIN w.weechat.lines
              THEN matrix_create_room_buffer(w, room_id) ELSE w
        w2 == IF w1.server.rooms[room_id].prev_batch = 0
              THEN [w1 EXCEPT !.server.rooms[room_id].prev_batch =
                                  section.prev_batch]
              ELSE w1
        w3 == matrix_handle_room_events(w2, room_id, section.state)
    IN  matrix_handle_room_events(w3, room_id, section.timeline)

RECURSIVE room_info_joins(_, _)
room_info_joins(w, join) ==
    IF join = <<>> THEN w
    ELSE IF Head(join).room_id = "" THEN room_info_joins(w, Tail(join))
    ELSE room_info_joins(room_info_join(w, Head(join)), Tail(join))

RECURSIVE room_info_invites(_, _)
room_info_invites(w, invite) ==
    IF invite = <<>> THEN w
    ELSE room_info_invites(
             matrix_handle_invite_events(w, Head(invite).room_id,
                                         Head(invite).events),
             Tail(invite))

matrix_handle_room_info(w, room_info) ==
    room_info_invites(room_info_joins(w, room_info.join), room_info.invite)

---------------------------------------------------------------------------
(* The backlog: matrix_handle_old_messages and the re-sort of the buffer.  *)

\* sorted(lines, key=itemgetter('date')) is stable: x goes behind the lines
\* whose date is not later than its own
RECURSIVE InsertByDate(_, _)
InsertByDate(sorted, x) ==
    IF sorted = <<>> THEN <<x>>
    ELSE IF Head(sorted).date <= x.date
         THEN <<Head(sorted)>> \o InsertByDate(Tail(sorted), x)
         ELSE <<x>> \o sorted

RECURSIVE SortedByDate(_)
SortedByDate(lines) ==
    IF lines = <<>> THEN <<>>
    ELSE InsertByDate(SortedByDate(SubSeq(lines, 1, Len(lines) - 1)),
                      lines[Len(lines)])

\* the lines are read first to last, sorted by date, reversed by the pop()
\* loop and written back first to last with new_lines.pop()
matrix_sort_old_messages(w, room_id) ==
    [w EXCEPT !.weechat.lines[room_id] = SortedByDate(@)]

RECURSIVE old_messages_from(_, _, _)
old_messages_from(w, room_id, events) ==
    IF events = <<>> THEN w
    ELSE old_messages_from(
             matrix_handle_room_messages(w, room_id, Head(events), TRUE),
             room_id, Tail(events))

matrix_handle_old_messages(w, room_id, events) ==
    matrix_sort_old_messages(old_messages_from(w, room_id, events), room_id)

---------------------------------------------------------------------------
(* Responses.  json_ok is whether the body decodes; the other fields are   *)
(* the keys of the decoded body the handler of the request's kind reads.   *)

BaseResponse(status) ==
    [ status     |-> status,
      json_ok    |-> TRUE,
      next_batch |-> 0,
      join       |-> <<>>,
      invite     |-> <<>>,
      event_id   |-> 0,
      chunk      |-> <<>>,
      chunk_room |-> "",
      end        |-> 0 ]

\* a sync that starts from the empty cursor
matrix_sync_fresh(w) ==
    LET message == [MatrixMessage(w, "SYNC", "", 0) EXCEPT !.next_batch = 0]
    IN  [w EXCEPT !.server.send_queue = Append(@, message)]

matrix_sync(w) ==
    LET message == MatrixMessage(w, "SYNC", "", 0)
    IN  [w EXCEPT !.server.send_queue = Append(@, message)]

matrix_login(w, ok) ==
    send_or_queue(w, MatrixMessage(w, "LOGIN", "", 0), ok)

\* the SYNC branch with the test for the same batch dropped
matrix_handle_sync_always(w, response) ==
    LET w1 == matrix_handle_room_info(w, response)
        w2 == [w1 EXCEPT !.server.next_batch = response.next_batch]
    IN  matrix_sync(w2)

\* the SYNC branch of matrix_handle_message: "we got the same batch again,
\* nothing to do", or the rooms are applied and then the cursor committed
matrix_handle_sync(w, response) ==
    IF response.next_batch = w.server.next_batch
    THEN matrix_sync(w)
    ELSE LET w1 == matrix_handle_room_info(w, response)
             w2 == [w1 EXCEPT !.server.next_batch = response.next_batch]
         IN  matrix_sync(w2)

\* matrix_handle_message with a decoded body
\* a backlog handler that takes the end cursor of an empty page
matrix_handle_message_end(w, message, response, ok) ==
    IF message.type = "ROOM_MSG"
    THEN [w EXCEPT !.server.rooms[response.chunk_room].prev_batch =
                       response.end]
    ELSE w

matrix_handle_message(w, message, response, ok) ==
    CASE message.type = "LOGIN" ->
            LET w1 == [w EXCEPT !.server.access_token = TRUE,
                                !.server.user_id = OwnUserId]
            IN  send_or_queue(w1, MatrixMessage(w1, "SYNC", "", 0), ok)
      [] message.type = "SYNC" -> matrix_handle_sync(w, response)
      [] message.type = "SEND" ->
            LET w1 == [w EXCEPT !.server.ignore_event_list =
                                    Append(@, response.event_id)]
            IN  prnt_date_tags(w1, message.room_id,
                               w.weechat.clock \div 1000,
                               {"notify_none", "no_highlight", "self_msg",
                                "log1", "matrix_message"},
                               response.event_id, <<"text">>)
      [] message.type = "ROOM_MSG" ->
            IF response.chunk = <<>> THEN w
            ELSE LET room_id == response.chunk_room
                     w1 == matrix_handle_old_messages(w, room_id,
                                                      response.chunk)
                 IN  [w1 EXCEPT !.server.rooms[room_id].prev_batch =
                                    response.end]
      [] message.type \in {"STATE", "REDACT"} -> w
      [] OTHER -> Log(w, "prnt_type_not_implemented", message.type, 0)

\* matrix_handle_message with response = None (the body did not decode):
\* every kind but STATE and REDACT subscripts None
matrix_handle_message_none(w, message) ==
    IF message.type \in {"STATE", "REDACT"} THEN w
    ELSE Raise(w, "TypeError")

close_socket(w) ==
    IF w.server.socket = "none" THEN Raise(w, "AttributeError")
    ELSE [w EXCEPT !.server.socket = "closed"]

\* a 403 to a LOGIN that closes the socket and leaves the rest to others
handle_http_response_closes(w, message, response, ok) ==
    IF response.status = 403 /\ message.type = "LOGIN"
    THEN close_socket([Log(w, "prnt_login_error", message.type, 0)
                          EXCEPT !.server.timer_hook = FALSE])
    ELSE w

handle_http_response(w, message, response, ok) ==
    CASE response.status = 200 ->
            IF response.json_ok
            THEN matrix_handle_message(w, message, response, ok)
            ELSE matrix_handle_message_none(
                     Log(w, "prnt_json_error", message.type, 0), message)
      [] response.status = 504 ->
            IF message.type = "SYNC" THEN matrix_sync(w) ELSE w
      [] response.status = 403 ->
            IF message.type = "LOGIN"
            THEN LET w1 == Log(w, "prnt_login_error", message.type, 0)
                     w2 == [w1 EXCEPT !.server.timer_hook = FALSE]
                     w3 == close_socket(w2)
                 IN  IF Raised(w3) THEN w3 ELSE disconnect(w3)
            ELSE IF message.type = "STATE"
            THEN Log(w, "prnt_cant_set_state", message.type, 0)
            ELSE Log(w, "prnt_unhandled_403", message.type, 0)
      [] OTHER -> Log(w, "prnt_unhandled_status", message.type,
                      response.status)

---------------------------------------------------------------------------
(* receive_cb: the loop reads until the socket would block, fails, is      *)
(* closed by the peer or the response is complete.  reads are the reads    *)
(* that bring data, the one that completes the response included; outcome  *)
(* is what ends the loop.                                                  *)

RecvOutcomes == {"want_read", "error", "eof", "complete"}

\* a read that puts its fragment in front of the accumulator
RECURSIVE recv_partial_front(_, _)
recv_partial_front(w, chunks) ==
    IF chunks = 0 THEN w
    ELSE LET fragment == w.homeserver.fragments + 1
             w1 == [w EXCEPT !.server.http_buffer = <<fragment>> \o @,
                             !.homeserver.fragments = fragment]
         IN  recv_partial_front(Log(w1, "recv_body", "", fragment),
                                chunks - 1)

\* is_partial_body(): the fragment of the body the read brought joins the
\* accumulator; the fragments of a response are numbered as they arrive
RECURSIVE recv_partial(_, _)
recv_partial(w, chunks) ==
    IF chunks = 0 THEN w
    ELSE LET fragment == w.homeserver.fragments + 1
             w1 == [w EXCEPT !.server.http_buffer = Append(@, fragment),
                             !.homeserver.fragments = fragment]
         IN  recv_partial(Log(w1, "recv_body", "", fragment), chunks - 1)

\* the reads of one callback: a read brings a fragment of the body (TRUE) or
\* bytes of the status line, the headers or the framing only (FALSE)
RECURSIVE recv(_, _)
recv(w, reads) ==
    IF reads = <<>> THEN w
    ELSE recv(IF Head(reads) THEN recv_partial(w, 1) ELSE w, Tail(reads))

\* chunks reads that bring a fragment each
BodyReads(chunks) == [i \in 1..chunks |-> TRUE]

\* the requests of receive_queue transmitted before message
OlderInFlight(w, message) ==
    Cardinality({i \in DOMAIN w.server.receive_queue :
                    w.server.receive_queue[i].send_time < message.send_time})

\* "Queue the failed message for resending"
requeue_failed(w) ==
    IF w.server.receive_queue # <<>>
    THEN LET message == Head(w.server.receive_queue)
         IN  [w EXCEPT !.server.receive_queue = Tail(@),
                       !.server.send_queue = <<message>> \o @]
    ELSE w

\* deque.pop(): the newest request, not the oldest
receive_queue_pop(queue) ==
    [message |-> queue[Len(queue)], rest |-> SubSeq(queue, 1, Len(queue) - 1)]

\* message = server.receive_queue.popleft(): the message and the rest
receive_queue_popleft(queue) == [message |-> Head(queue), rest |-> Tail(queue)]

\* the last read brings the end of the response; the response is paired with
\* a request, the parser is reset and the response handled
receive_complete(w, response, ok) ==
    IF w.server.receive_queue = <<>> THEN Raise(w, "IndexError")
    ELSE LET popped == receive_queue_popleft(w.server.receive_queue)
             message == popped.message
             w1 == Log(w, "pair", message.type, OlderInFlight(w, message))
             w2 == [w1 EXCEPT !.server.receive_queue = popped.rest,
                              !.homeserver.fragments = 0,
                              !.trace.paired = message,
                              !.trace.response = response,
                              !.trace.body = w.server.http_buffer]
         IN  handle_http_response(reset_parser(w2), message, response, ok)

\* what execute() does with data that goes on behind the end of a message:
\* it stops there and reports fewer bytes than it was given, or it goes on
\* into the next message
ParserOutcomes == {"stops", "continues"}

\* receive_cb where the data of the last read holds the end of the response
\* and the beginning of the next one: all of it is given to execute(); when
\* the parser stops at the end of the message the assertion on parsed_bytes
\* fails, when it goes on the response is complete and handled
receive_straddling(w, reads, parser, response, ok) ==
    LET front == SubSeq(reads, 1, Len(reads) - 1)
        w1 == Log(recv(w, front), "recv_straddling", "", 0)
        w2 == [w1 EXCEPT !.homeserver.taken = 1]
    IN  IF parser = "stops" THEN Raise(w2, "AssertionError")
        ELSE LET w3 == recv([w2 EXCEPT !.server.parser_next = 1],
                            <<reads[Len(reads)]>>)
             IN  receive_complete(w3, response, ok)

\* receive_cb where the parser is given a response without its beginning:
\* execute() reports fewer bytes than it was given
receive_unaligned(w) == Raise(w, "AssertionError")

\* a receive_cb whose failed read requeues the oldest request in flight and
\* leaves the others in receive_queue
receive_cb_stale(w, reads, outcome, response, ok) ==
    LET w1 == recv(w, reads)
        rest == Tail(w1.server.receive_queue)
    IN  CASE outcome = "want_read" -> w1
          [] outcome \in {"error", "eof"} ->
                IF w1.server.receive_queue = <<>>
                THEN disconnect(Log(w1, "prnt_no_data", "", 0))
                ELSE [disconnect(requeue_failed(Log(w1, "prnt_no_data", "", 0)))
                         EXCEPT !.server.receive_queue = rest]
          [] outcome = "complete" -> receive_complete(w1, response, ok)

receive_cb(w, reads, outcome, response, ok) ==
    LET w1 == recv(w, reads)
    IN  CASE outcome = "want_read" -> w1
          [] outcome = "error" ->
                Log(requeue_failed(disconnect(w1)), "prnt_error", "", 0)
          [] outcome = "eof" ->
                disconnect(requeue_failed(Log(w1, "prnt_no_data", "", 0)))
          [] outcome = "complete" -> receive_complete(w1, response, ok)

---------------------------------------------------------------------------
(* Connecting.                                                             *)

\* connect(server): the address and the port are configured; without a user
\* and a password nothing is started
connect(w) ==
    IF ~w.server.password THEN Log(w, "prnt_password_not_set", "", 0)
    ELSE IF w.server.connected THEN w
    ELSE Log([w EXCEPT !.server.timer_hook = TRUE,
                       !.weechat.connect_hooks = @ + 1],
             "hook_connect", "", 0)

\* a reconnect that counts the attempt before it computes the delay
reconnect_count_first(w) ==
    LET w1 == [w EXCEPT !.server.connecting = TRUE,
                        !.server.reconnect_count = @ + 1]
        timeout == w1.server.reconnect_count * ReconnectUnitMs
        w2 == IF timeout > 0
              THEN Log([w1 EXCEPT !.weechat.reconnect_timers =
                                      Append(@, timeout)],
                       "hook_timer", "", timeout)
              ELSE connect(w1)
    IN  Log(w2, "reconnect", "", timeout)

reconnect(w) ==
    LET w1 == [w EXCEPT !.server.connecting = TRUE]
        timeout == w1.server.reconnect_count * ReconnectUnitMs
        w2 == IF timeout > 0
              THEN Log([w1 EXCEPT !.weechat.reconnect_timers =
                                      Append(@, timeout)],
                       "hook_timer", "", timeout)
              ELSE connect(w1)
    IN  Log([w2 EXCEPT !.server.reconnect_count = @ + 1],
            "reconnect", "", timeout)

reconnect_cb(w) == connect(w)

\* connect_cb: wrap_ok is whether wrap_socket() returns a socket
connect_cb(w, status, wrap_ok, ok) ==
    IF status = "OK"
    THEN IF wrap_ok
         THEN LET w1 == [w EXCEPT !.server.socket          = "open",
                                  !.server.fd_hook         = TRUE,
                                  !.server.connected       = TRUE,
                                  !.server.connecting      = FALSE,
                                  !.server.reconnect_count = 0]
                  w2 == Log(w1, "prnt_connected", "", 0)
              IN  IF ~w2.server.access_token
                  THEN matrix_login(w2, ok) ELSE w2
         ELSE reconnect(w)
    ELSE reconnect(Log(w, "prnt_connect_error", "", 0))

---------------------------------------------------------------------------
(* The maintenance tick and the input of a room buffer.                    *)

\* a drain that takes the newest request first: send_queue.pop()
RECURSIVE timer_drain_pop(_, _, _)
timer_drain_pop(w, n, fail_at) ==
    IF w.server.send_queue = <<>> THEN w
    ELSE LET message == w.server.send_queue[Len(w.server.send_queue)]
             w1 == [w EXCEPT !.server.send_queue = SubSeq(@, 1, Len(@) - 1)]
             w2 == send(w1, message, n # fail_at)
         IN  IF ~w2.trace.ret
             THEN [w2 EXCEPT !.server.send_queue = Append(@, message)]
             ELSE timer_drain_pop(w2, n + 1, fail_at)

\* a drain that puts the request that failed behind the waiting ones
RECURSIVE timer_drain_append(_, _, _)
timer_drain_append(w, n, fail_at) ==
    IF w.server.send_queue = <<>> THEN w
    ELSE LET message == Head(w.server.send_queue)
             w1 == [w EXCEPT !.server.send_queue = Tail(@)]
             w2 == send(w1, message, n # fail_at)
         IN  IF ~w2.trace.ret
             THEN [w2 EXCEPT !.server.send_queue = Append(@, message)]
             ELSE timer_drain_append(w2, n + 1, fail_at)

\* the while loop of matrix_timer_cb: the n-th send() of the tick fails when
\* n = fail_at
RECURSIVE timer_drain(_, _, _)
timer_drain(w, n, fail_at) ==
    IF w.server.send_queue = <<>> THEN w
    ELSE LET message == Head(w.server.send_queue)
             w1 == [w EXCEPT !.server.send_queue = Tail(@)]
             w2 == send(w1, message, n # fail_at)
         IN  IF ~w2.trace.ret
             THEN [w2 EXCEPT !.server.send_queue = <<message>> \o @]
             ELSE timer_drain(w2, n + 1, fail_at)

\* a tick that drops what is queued before it reconnects
matrix_timer_cb_dropping(w, fail_at) ==
    IF ~w.server.connected
    THEN IF ~w.server.connecting
         THEN reconnect(Log([w EXCEPT !.server.send_queue = <<>>],
                            "prnt_reconnecting", "", 0))
         ELSE w
    ELSE timer_drain(w, 1, fail_at)

matrix_timer_cb(w, fail_at) ==
    IF ~w.server.connected
    THEN IF ~w.server.connecting
         THEN reconnect(Log(w, "prnt_reconnecting", "", 0))
         ELSE w
    ELSE timer_drain(w, 1, fail_at)

\* txn_id numbers the messages the user sends
room_input_cb(w, room_id, txn_id, ok) ==
    IF ~w.server.connected
    THEN Log(w, "prnt_not_connected", "", 0)
    ELSE IF w.server.rooms[room_id].encrypted
    THEN Log(w, "return", "WEECHAT_RC_OK", 0)
    ELSE send_or_queue([w EXCEPT !.homeserver.sends = @ + 1],
                       MatrixMessage(w, "SEND", room_id, txn_id), ok)

\* a disconnect command that marks the server disconnected and no more
disconnect_server_flag_only(w) ==
    IF w.server.connected
    THEN [w EXCEPT !.server.timer_hook = FALSE,
                   !.server.access_token = FALSE,
                   !.server.connected = FALSE]
    ELSE w

\* a disconnect command that forgets the sync cursor with the token
disconnect_server_forgets(w) ==
    IF w.server.connected
    THEN disconnect([w EXCEPT !.server.timer_hook = FALSE,
                              !.server.access_token = FALSE,
                              !.server.next_batch = 0])
    ELSE w

\* /matrix disconnect and /matrix connect
disconnect_server(w) ==
    IF w.server.connected
    THEN disconnect([w EXCEPT !.server.timer_hook = FALSE,
                              !.server.access_token = FALSE])
    ELSE w

connect_server(w) == connect(w)

---------------------------------------------------------------------------
(* The state after the script is loaded and a server configured.           *)

InitServer ==
    [ connected         |-> FALSE,
      connecting        |-> FALSE,
      reconnect_count   |-> 0,
      socket            |-> "none",
      fd_hook           |-> FALSE,
      timer_hook        |-> FALSE,
      access_token      |-> FALSE,
      password          |-> TRUE,
      user_id           |-> "",
      next_batch        |-> 0,
      send_queue        |-> <<>>,
      receive_queue     |-> <<>>,
      http_buffer       |-> <<>>,
      ignore_event_list |-> <<>>,
      parser_next       |-> 0,
      rooms             |-> [r \in {} |-> MatrixRoom("")] ]

InitWeechat ==
    [ lines            |-> [r \in {} |-> <<>>],
      clock            |-> 0,
      redaction_type   |-> "STRIKETHROUGH",
      connect_hooks    |-> 0,
      reconnect_timers |-> <<>> ]

\* sends: the transactions the client has started; unsynced: the events of
\* this client the homeserver holds and has not delivered in a sync batch
\* fragments: the fragments of the body of the response in delivery that
\* the client has read; taken: the pieces of the beginning of the response
\* that follows which recv() has taken from the socket, and parser_next of
\* the server those the parser object in use was given
InitHomeserver ==
    [ sends |-> 0, unsynced |-> {}, fragments |-> 0, taken |-> 0 ]

InitTrace ==
    [ ev       |-> <<>>,
      raised   |-> "",
      ret      |-> TRUE,
      paired   |-> NoMessage,
      response |-> BaseResponse(0),
      body     |-> <<>>,
      consec   |-> <<>>,
      stopped  |-> FALSE,
      crowded  |-> FALSE ]

Init ==
    /\ server = InitServer
    /\ weechat = InitWeechat
    /\ homeserver = InitHomeserver
    /\ trace = InitTrace
    /\ SERVERS = {ServerName}

\* the world a callback starts in
World ==
    [ server     |-> server,
      weechat    |-> weechat,
      homeserver |-> homeserver,
      trace      |-> [trace EXCEPT !.ev = <<>>, !.raised = "",
                                   !.ret = TRUE, !.paired = NoMessage,
                                   !.response = BaseResponse(0),
                                   !.body = <<>>] ]

HasEv(w, op) == \E i \in DOMAIN w.trace.ev : w.trace.ev[i].op = op

WithinBounds(w) ==
    /\ Len(w.server.send_queue) + Len(w.server.receive_queue) <= MaxQueue
    /\ w.homeserver.sends <= MaxSends
    /\ w.server.reconnect_count <= MaxReconnect
    /\ w.weechat.connect_hooks + Len(w.weechat.reconnect_timers) <= MaxHooks

\* the stamps of the requests alive, kept as ranks: their order is all the
\* script compares
Rank(S, x) == Cardinality({y \in S : y <= x})

Ranked(w) ==
    LET created == {m.creation_time : m \in Alive(w)}
        sent    == {m.send_time : m \in Range(w.server.receive_queue)}
    IN  [w EXCEPT
           !.server.send_queue =
               [i \in DOMAIN @ |->
                   [@[i] EXCEPT !.creation_time = Rank(created, @),
                                !.send_time = 0]],
           !.server.receive_queue =
               [i \in DOMAIN @ |->
                   [@[i] EXCEPT !.creation_time = Rank(created, @),
                                !.send_time = Rank(sent, @)]],
           !.trace.paired =
               [@ EXCEPT !.creation_time = 0, !.send_time = 0]]

\* the hooks weechat holds for the server: connection attempts that have
\* not ended and backoff timers that have not fired
Outstanding(w) == w.weechat.connect_hooks + Len(w.weechat.reconnect_timers)

AttemptBounds(w) ==
    /\ Len(w.server.send_queue) + Len(w.server.receive_queue) <= MaxQueue
    /\ w.server.reconnect_count <= MaxReconnect
    /\ Outstanding(w) <= MaxAttempts

\* the callback returns: its world is the next state
Commit(w) ==
    /\ WithinBounds(w)
    /\ server' = Ranked(w).server
    /\ weechat' = w.weechat
    /\ homeserver' = w.homeserver
    /\ trace' = Ranked(w).trace
    /\ SERVERS' = SERVERS

\* a write error is an input only when a send() of the callback met it
SendOutcome(w, ok) == ok \/ HasEv(w, "tx_failed")

---------------------------------------------------------------------------
(* What the homeserver answers.                                            *)

\* room name events: one removes the name, one sets it
NameEvents == {RoomName(900, "@a", ""), RoomName(901, "@a", "n")}

\* the events of the timeline of a joined room: the echoes of the messages
\* this client sent and the homeserver has not delivered yet, and the room
\* name events
SpecEvents(w) ==
    {TextMessage(id, OwnUserId) : id \in w.homeserver.unsynced}
        \cup NameEvents

Distinct(seq) == \A i, j \in DOMAIN seq : i # j => seq[i] # seq[j]

EventLists(events) == {l \in SeqsUpTo(events, MaxEvents) : Distinct(l)}

JoinSection(room_id, state, timeline) ==
    [ room_id    |-> room_id,
      prev_batch |-> 1,
      state      |-> state,
      timeline   |-> timeline ]

SyncBody(next_batch, join) ==
    [BaseResponse(200) EXCEPT !.next_batch = next_batch, !.join = join]

\* a sync answered with the cursor of the request brings no event the
\* homeserver has not delivered; it may repeat the rooms and their names
SyncBodies(w, message) ==
    {SyncBody(nb, <<>>) : nb \in 1..MaxBatch}
        \cup {SyncBody(nb, <<JoinSection(r, <<>>, t)>>) :
                 nb \in (1..MaxBatch) \ {message.next_batch},
                 r \in RoomIds, t \in EventLists(SpecEvents(w))}
        \cup {SyncBody(nb, <<JoinSection(r, <<>>, t)>>) :
                 nb \in (1..MaxBatch) \cap {message.next_batch},
                 r \in RoomIds \cap DOMAIN w.server.rooms,
                 t \in EventLists(NameEvents)}

OkBodies(w, message) ==
    CASE message.type = "SYNC" -> SyncBodies(w, message)
      [] message.type = "SEND" ->
            {[BaseResponse(200) EXCEPT !.event_id = message.txn_id]}
      [] OTHER -> {BaseResponse(200)}

Responses(w, message) ==
    OkBodies(w, message)
        \cup {[BaseResponse(200) EXCEPT !.json_ok = FALSE]}
        \cup {BaseResponse(status) : status \in HttpStatuses \ {200}}

\* the events of a response the homeserver has now delivered
Delivered(response) ==
    UNION {{e.event_id : e \in Range(response.join[i].timeline)} :
              i \in DOMAIN response.join}

---------------------------------------------------------------------------
(* The callbacks.                                                          *)

\* the user's commands; trace.stopped is whether the last one was the
\* disconnect command
Connect ==
    Commit([connect_server(World) EXCEPT !.trace.stopped = FALSE])

Disconnect ==
    Commit([disconnect_server(World) EXCEPT !.trace.stopped = TRUE])

\* the connection attempt ends: the callback of W.hook_connect
ConnectCbWith(statuses, wraps) ==
    /\ weechat.connect_hooks > 0
    /\ \E status \in statuses, wrap_ok \in wraps, ok \in BOOLEAN :
          LET w1 == [World EXCEPT !.weechat.connect_hooks = @ - 1]
              w2 == connect_cb(w1, status, wrap_ok, ok)
              failed == HasEv(w2, "reconnect")
              entry == [delay |-> w2.trace.ev[Len(w2.trace.ev)].n,
                        count |-> w2.server.reconnect_count]
              w3 == [w2 EXCEPT !.trace.consec =
                        IF ~failed THEN <<>>
                        ELSE IF server.reconnect_count = 0 THEN <<entry>>
                        ELSE IF @ # <<>> THEN Append(@, entry)
                        ELSE <<>>]
          IN  /\ SendOutcome(w2, ok)
              /\ Commit(w3)

\* the attempt succeeded and the TLS handshake too
ConnectCbOk == ConnectCbWith({"OK"}, {TRUE})

\* the attempt failed, or the TLS handshake did
ConnectCbFailed ==
    \/ ConnectCbWith(ConnectStatuses \ {"OK"}, {TRUE})
    \/ ConnectCbWith({"OK"}, {FALSE})

ReconnectCb ==
    \E i \in DOMAIN weechat.reconnect_timers :
        LET w0 == World
            w1 == [w0 EXCEPT !.weechat.reconnect_timers =
                      SubSeq(@, 1, i - 1) \o SubSeq(@, i + 1, Len(@))]
        IN  Commit(reconnect_cb(w1))

TimerCb ==
    /\ server.timer_hook
    /\ \E fail_at \in 0..Len(server.send_queue) :
          LET w1 == matrix_timer_cb(World, fail_at)
          IN  /\ SendOutcome(w1, fail_at = 0)
              /\ Commit(w1)

RoomInput ==
    \E room_id \in DOMAIN weechat.lines, ok \in BOOLEAN :
        LET w1 == room_input_cb(World, room_id, homeserver.sends + 1, ok)
        IN  /\ SendOutcome(w1, ok)
            /\ Commit(w1)

\* the socket is readable: fragments of the answer to the oldest request in
\* flight arrive, or the read fails
ReceivePartial ==
    /\ server.fd_hook /\ server.socket = "open"
    /\ server.receive_queue # <<>>
    /\ \E chunks \in 1..(MaxChunks - Len(server.http_buffer)) :
          Commit(receive_cb(World, BodyReads(chunks), "want_read",
                            BaseResponse(0), TRUE))

ReceiveFailure ==
    /\ server.fd_hook /\ server.socket = "open"
    /\ \E outcome \in {"error", "eof"} :
          LET w1 == receive_cb(World, <<>>, outcome,
                               BaseResponse(0), TRUE)
          IN  Commit(w1)

ReceiveComplete ==
    /\ server.fd_hook /\ server.socket = "open"
    /\ server.receive_queue # <<>>
    /\ \E response \in Responses(World,
                                 Head(server.receive_queue)),
          ok \in BOOLEAN :
          LET w1 == receive_cb(World, BodyReads(1), "complete", response,
                               ok)
              w2 == [w1 EXCEPT !.homeserver.unsynced =
                                   @ \ Delivered(response)]
          IN  /\ SendOutcome(w2, ok)
              /\ Commit(w2)

Next ==
    \/ Connect
    \/ Disconnect
    \/ ConnectCbOk
    \/ ConnectCbFailed
    \/ ReconnectCb
    \/ TimerCb
    \/ RoomInput
    \/ ReceivePartial
    \/ ReceiveFailure
    \/ ReceiveComplete

Spec == Init /\ [][Next]_vars

---------------------------------------------------------------------------
(* The connection life cycle alone: the homeserver is unreachable or       *)
(* silent, so connects fail or succeed, reads fail and no response comes.  *)

ConnNext ==
    \/ Connect
    \/ Disconnect
    \/ ConnectCbOk
    \/ ConnectCbFailed
    \/ ReconnectCb
    \/ TimerCb
    \/ ReceiveFailure

ConnSpec == Init /\ [][ConnNext]_vars

---------------------------------------------------------------------------
(* The attempts to connect: the user's commands, the tick, the connect     *)
(* callback and the backoff timer in any interleaving, with as many hooks  *)
(* pending as the script makes, up to MaxAttempts.                         *)

AttemptCommit(w) ==
    /\ AttemptBounds(w)
    /\ server' = Ranked(w).server
    /\ weechat' = w.weechat
    /\ homeserver' = w.homeserver
    /\ trace' = Ranked(w).trace
    /\ SERVERS' = SERVERS

AttemptConnect ==
    AttemptCommit([connect_server(World) EXCEPT !.trace.stopped = FALSE])

AttemptDisconnect ==
    AttemptCommit([disconnect_server(World) EXCEPT !.trace.stopped = TRUE])

AttemptConnectCb ==
    /\ weechat.connect_hooks > 0
    /\ \E status \in ConnectStatuses, wrap_ok, ok \in BOOLEAN :
          LET w1 == [World EXCEPT !.weechat.connect_hooks = @ - 1]
              w2 == connect_cb(w1, status, wrap_ok, ok)
          IN  /\ SendOutcome(w2, ok)
              /\ status = "OK" \/ wrap_ok
              /\ AttemptCommit(w2)

AttemptReconnectCb ==
    \E i \in DOMAIN weechat.reconnect_timers :
        LET w1 == [World EXCEPT !.weechat.reconnect_timers =
                      SubSeq(@, 1, i - 1) \o SubSeq(@, i + 1, Len(@))]
        IN  AttemptCommit(reconnect_cb(w1))

AttemptTimerCb ==
    /\ server.timer_hook
    /\ \E fail_at \in 0..Len(server.send_queue) :
          LET w1 == matrix_timer_cb(World, fail_at)
          IN  /\ SendOutcome(w1, fail_at = 0)
              /\ AttemptCommit(w1)

AttemptNext ==
    \/ AttemptConnect
    \/ AttemptDisconnect
    \/ AttemptConnectCb
    \/ AttemptReconnectCb
    \/ AttemptTimerCb

AttemptSpec == Init /\ [][AttemptNext]_vars

\* the same with reads that fail.  weechat keeps calling what is hooked: a
\* maintenance tick, a backoff timer or the end of a connection attempt that
\* can run is run in the end.  The user's commands and the failures of the
\* network are under no such obligation.
LiveFailure ==
    /\ server.fd_hook /\ server.socket = "open"
    /\ \E outcome \in {"error", "eof"} :
          AttemptCommit(receive_cb(World, <<>>, outcome,
                                   BaseResponse(0), TRUE))

LiveNext ==
    \/ AttemptConnect
    \/ AttemptDisconnect
    \/ AttemptConnectCb
    \/ AttemptReconnectCb
    \/ AttemptTimerCb
    \/ LiveFailure

LiveSpec ==
    /\ Init
    /\ [][LiveNext]_vars
    /\ WF_vars(AttemptTimerCb)
    /\ WF_vars(AttemptReconnectCb)
    /\ WF_vars(AttemptConnectCb)

---------------------------------------------------------------------------
(* The application of sync batches alone: a connected, logged-in client    *)
(* that has joined the room, with any membership of the other user and     *)
(* with or without the id of a message it sent in the ignore list.         *)

\* the id of the message this client sent
SentEventId == 1

RoomMembers(users) ==
    [u \in users |-> MatrixUser(ShortName(u), ShortName(u))]

RoomServer(users, ignored) ==
    [InitServer EXCEPT
        !.connected         = TRUE,
        !.socket            = "open",
        !.fd_hook           = TRUE,
        !.timer_hook        = TRUE,
        !.access_token      = TRUE,
        !.user_id           = OwnUserId,
        !.next_batch        = 1,
        !.ignore_event_list = ignored,
        !.rooms             =
            [r \in RoomIds |->
                [MatrixRoom(r) EXCEPT !.prev_batch = 1,
                                      !.users = RoomMembers(users)]]]

RoomInit ==
    /\ \E users \in SUBSET (UserIds \ {OwnUserId}),
          ignored \in {<<>>, <<SentEventId>>} :
          server = RoomServer(users, ignored)
    /\ weechat = [InitWeechat EXCEPT !.lines = [r \in RoomIds |-> <<>>]]
    /\ homeserver = InitHomeserver
    /\ trace = InitTrace
    /\ SERVERS = {ServerName}

\* the events of a timeline: the other user joins and leaves, the room name
\* is set or removed, the message this client sent comes back
RoomEvents ==
    {Membership(910, "@a", "join", ""), Membership(911, "@a", "leave", ""),
     TextMessage(SentEventId, OwnUserId)} \cup NameEvents

\* matrix_handle_room_info on the rooms of one sync batch; the batch is kept
\* in trace.response
RoomInfo ==
    \E r \in RoomIds, timeline \in EventLists(RoomEvents) :
        LET response == SyncBody(0, <<JoinSection(r, <<>>, timeline)>>)
            w1 == matrix_handle_room_info(World, response)
        IN  /\ Len(w1.weechat.lines[r]) <= MaxEvents
            /\ Commit([w1 EXCEPT !.trace.response = response])

RoomNext == RoomInfo

RoomSpec == RoomInit /\ [][RoomNext]_vars

---------------------------------------------------------------------------
(* Redactions alone: a joined room where messages of the other user        *)
(* arrive, some of them redacted already, and redaction events name a      *)
(* message, twice, or an event that was never rendered; the presentation   *)
(* mode is any of the three of RedactType.                                 *)

RedactTypes == {"STRIKETHROUGH", "DELETE", "NOTICE"}

\* the id of the message of the other user, and an id no line carries
OtherEventId == 2

UnknownEventId == 3

RedactEvents ==
    {TextMessage(OtherEventId, "@a"),
     [TextMessage(OtherEventId, "@a") EXCEPT !.redacted = TRUE],
     Redaction(920, "@a", OtherEventId), Redaction(921, "@a", OtherEventId),
     Redaction(922, "@a", UnknownEventId)}

RedactInit ==
    /\ server = RoomServer({"@a"}, <<>>)
    /\ \E redaction_type \in RedactTypes :
          weechat = [InitWeechat EXCEPT
                        !.lines = [r \in RoomIds |-> <<>>],
                        !.redaction_type = redaction_type]
    /\ homeserver = InitHomeserver
    /\ trace = InitTrace
    /\ SERVERS = {ServerName}

\* matrix_handle_room_info on a batch of messages and redactions
RedactInfo ==
    \E r \in RoomIds, timeline \in EventLists(RedactEvents) :
        LET response == SyncBody(0, <<JoinSection(r, <<>>, timeline)>>)
            w1 == matrix_handle_room_info(World, response)
        IN  /\ Len(w1.weechat.lines[r]) <= MaxEvents
            /\ Commit([w1 EXCEPT !.trace.response = response])

RedactNext == RedactInfo

RedactSpec == RedactInit /\ [][RedactNext]_vars

---------------------------------------------------------------------------
(* The backlog alone: a joined room where a message arrives in a sync      *)
(* batch and pages of older messages are answered to ROOM_MSG requests.    *)
(* The events of a page come newest first; an event of the page was not    *)
(* rendered before.                                                        *)

\* time.time() when the callbacks run, in milliseconds
BacklogNow == 10000

\* the ages of the older messages: two of them fall in one whole second
BacklogAges == {100, 200, 1200}

AgedMessage(age) ==
    [TextMessage(10 + age \div 100, "@a") EXCEPT !.age = age]

\* the message that arrives in a sync batch
LiveMessage == AgedMessage(0)

RenderedIds(w, room_id) ==
    {w.weechat.lines[room_id][i].event_id :
        i \in DOMAIN w.weechat.lines[room_id]}

\* the pages the homeserver can answer: the newest event first
Chunks(w, room_id) ==
    {[i \in DOMAIN ages |-> AgedMessage(ages[i])] :
        ages \in {c \in SeqsUpTo(BacklogAges, MaxEvents) :
                    /\ \A i, j \in DOMAIN c : i < j => c[i] < c[j]
                    /\ \A i \in DOMAIN c :
                          AgedMessage(c[i]).event_id
                              \notin RenderedIds(w, room_id)}}

RoomMsgBody(room_id, chunk, end) ==
    [BaseResponse(200) EXCEPT !.chunk = chunk, !.chunk_room = room_id,
                              !.end = end]

BacklogInit ==
    /\ server = RoomServer({"@a"}, <<>>)
    /\ weechat = [InitWeechat EXCEPT !.lines = [r \in RoomIds |-> <<>>],
                                     !.clock = BacklogNow]
    /\ homeserver = InitHomeserver
    /\ trace = InitTrace
    /\ SERVERS = {ServerName}

\* a sync batch brings the new message
BacklogSync ==
    \E r \in RoomIds :
        LET response == SyncBody(0, <<JoinSection(r, <<>>, <<LiveMessage>>)>>)
            w1 == matrix_handle_room_info(World, response)
        IN  /\ LiveMessage.event_id \notin RenderedIds(World, r)
            /\ Commit([w1 EXCEPT !.trace.response = response])

\* the answer to a ROOM_MSG request is handled
BacklogPage ==
    \E r \in RoomIds, end \in 1..MaxBatch :
        \E chunk \in Chunks(World, r) :
            LET message == MatrixMessage(World, "ROOM_MSG", r, 0)
                response == RoomMsgBody(r, chunk, end)
                w1 == [World EXCEPT !.trace.paired = message,
                                    !.trace.response = response]
            IN  Commit(handle_http_response(w1, message, response, TRUE))

BacklogNext ==
    \/ BacklogSync
    \/ BacklogPage

BacklogSpec == BacklogInit /\ [][BacklogNext]_vars

---------------------------------------------------------------------------
(* Encryption and unknown events: a connected, logged-in client in a room  *)
(* where the timeline brings a message and a join of the other user, the   *)
(* event that turns encryption on, and an event of a type the script does  *)
(* not know; and the user types lines in the buffer of the room.           *)

EncryptionEventId == 930

CustomEventId == 931

EngineEvents ==
    {TextMessage(OtherEventId, "@a"), Membership(910, "@a", "join", ""),
     BaseEvent("m.room.encryption", EncryptionEventId, "@a"),
     BaseEvent("org.example.custom", CustomEventId, "@a")}

EngineInit ==
    /\ server = RoomServer({}, <<>>)
    /\ weechat = [InitWeechat EXCEPT !.lines = [r \in RoomIds |-> <<>>]]
    /\ homeserver = InitHomeserver
    /\ trace = InitTrace
    /\ SERVERS = {ServerName}

\* matrix_handle_room_info on one sync batch
EngineSync ==
    /\ server.connected
    /\ \E r \in RoomIds, timeline \in EventLists(EngineEvents) :
          LET response == SyncBody(0, <<JoinSection(r, <<>>, timeline)>>)
              w1 == matrix_handle_room_info(World, response)
          IN  /\ Len(w1.weechat.lines[r]) <= MaxEvents
              /\ Commit([w1 EXCEPT !.trace.response = response])

\* the user types a line in the buffer of a room
EngineInput ==
    \E room_id \in DOMAIN weechat.lines, ok \in BOOLEAN :
        LET w1 == room_input_cb(World, room_id, homeserver.sends + 1, ok)
        IN  /\ SendOutcome(w1, ok)
            /\ Commit(w1)

EngineNext ==
    \/ EngineSync
    \/ EngineInput

EngineSpec == EngineInit /\ [][EngineNext]_vars

---------------------------------------------------------------------------
(* Joining: a connected, logged-in client that has joined no room yet.     *)
(* Sync batches bring a joined section, with a backlog cursor or without,  *)
(* and an invite section, for the room or for another one; pages of older  *)
(* messages are answered for a room that exists.                           *)

InviteEventId == 912

SecondInviteEventId == 914

\* the events of the invite_state of an invited room
InviteEvents ==
    {Membership(InviteEventId, "@a", "invite", ""),
     Membership(SecondInviteEventId, "@a", "invite", ""),
     Membership(913, "@a", "join", ""), RoomName(901, "@a", "n")}

InviteLists == {l \in SeqsUpTo(InviteEvents, 2) : Distinct(l)}

InvitedRoomIds == RoomIds \cup {"!i"}

InviteSection(room_id, events) == [room_id |-> room_id, events |-> events]

JoinTimelines ==
    {<<>>, <<LiveMessage>>, <<Membership(910, "@a", "join", "")>>}

JoinInit ==
    /\ server = [RoomServer({}, <<>>) EXCEPT !.rooms = << >>]
    /\ weechat = [InitWeechat EXCEPT !.clock = BacklogNow]
    /\ homeserver = InitHomeserver
    /\ trace = InitTrace
    /\ SERVERS = {ServerName}

JoinCommit(w, response) ==
    /\ \A x \in DOMAIN w.weechat.lines :
          /\ Len(w.weechat.lines[x]) <= MaxEvents
          /\ Distinct(w.weechat.lines[x])
    /\ Commit([w EXCEPT !.trace.response = response])

\* matrix_handle_room_info on a sync batch with a joined room
JoinSync ==
    \E r \in RoomIds, prev_batch \in 0..MaxBatch, timeline \in JoinTimelines :
        LET section == [JoinSection(r, <<>>, timeline)
                           EXCEPT !.prev_batch = prev_batch]
            response == SyncBody(0, <<section>>)
        IN  JoinCommit(matrix_handle_room_info(World, response), response)

\* matrix_handle_room_info on a sync batch with an invited room, alone or
\* behind a joined room
JoinInvite ==
    \E r \in RoomIds, ri \in InvitedRoomIds, events \in InviteLists,
       joined \in BOOLEAN :
        LET section == JoinSection(r, <<>>, <<>>)
            response ==
                [SyncBody(0, IF joined THEN <<section>> ELSE <<>>)
                    EXCEPT !.invite = <<InviteSection(ri, events)>>]
        IN  JoinCommit(matrix_handle_room_info(World, response), response)

\* the answer to a ROOM_MSG request for a joined room is handled
JoinPage ==
    \E r \in DOMAIN server.rooms, end \in 1..MaxBatch :
        \E chunk \in {c \in Chunks(World, r) : Len(c) <= 1} :
            LET message == MatrixMessage(World, "ROOM_MSG", r, 0)
                response == RoomMsgBody(r, chunk, end)
                w1 == [World EXCEPT !.trace.paired = message,
                                    !.trace.response = response]
                w2 == handle_http_response(w1, message, response, TRUE)
            IN  /\ Len(w2.weechat.lines[r]) <= MaxEvents
                /\ Commit(w2)

JoinNext ==
    \/ JoinSync
    \/ JoinInvite
    \/ JoinPage

JoinSpec == JoinInit /\ [][JoinNext]_vars

---------------------------------------------------------------------------
(* The delivery of responses in pieces: the connection life cycle, the     *)
(* login and the sync loop, where a response arrives in any number of      *)
(* reads, spread over any number of calls of receive_cb, and a read brings *)
(* a fragment of the body or not.                                          *)

StreamResponses(message) ==
    CASE message.type = "LOGIN" -> {BaseResponse(200), BaseResponse(403)}
      [] message.type = "SYNC" ->
            {SyncBody(nb, <<>>) : nb \in 1..MaxBatch}
                \cup {BaseResponse(504)}
      [] OTHER -> {BaseResponse(200)}

\* the reads of one call that bring data
ReadLists == SeqsUpTo(BOOLEAN, MaxReads) \ {<<>>}

\* reads that do not complete the response, then the socket would block
StreamRead ==
    /\ server.fd_hook /\ server.socket = "open"
    /\ server.receive_queue # <<>>
    /\ \E reads \in ReadLists :
          LET w1 == receive_cb(World, reads, "want_read", BaseResponse(0),
                               TRUE)
          IN  /\ w1.homeserver.fragments <= MaxReads
              /\ Commit(w1)

\* reads of which the last completes the response
StreamComplete ==
    /\ server.fd_hook /\ server.socket = "open"
    /\ server.receive_queue # <<>>
    /\ \E reads \in ReadLists,
          response \in StreamResponses(Head(server.receive_queue)),
          ok \in BOOLEAN :
          LET w1 == receive_cb(World, reads, "complete", response, ok)
          IN  /\ Len(w1.trace.body) <= MaxReads
              /\ SendOutcome(w1, ok)
              /\ Commit(w1)

\* reads, if any, and then the read fails or the peer has closed
StreamFailure ==
    /\ server.fd_hook /\ server.socket = "open"
    /\ \E reads \in SeqsUpTo(BOOLEAN, MaxReads),
          outcome \in {"error", "eof"} :
          /\ reads # <<>> => server.receive_queue # <<>>
          /\ LET w0 == recv(World, reads)
             IN  w0.homeserver.fragments <= MaxReads
          /\ Commit(receive_cb(World, reads, outcome, BaseResponse(0), TRUE))

StreamNext ==
    \/ Connect
    \/ Disconnect
    \/ ConnectCbOk
    \/ ConnectCbFailed
    \/ ReconnectCb
    \/ TimerCb
    \/ StreamRead
    \/ StreamFailure
    \/ StreamComplete

StreamSpec == Init /\ [][StreamNext]_vars

---------------------------------------------------------------------------
(* Two responses in one read: the delivery of responses in pieces, where   *)
(* the data of a read may hold the end of the response to the oldest       *)
(* request in flight and the beginning of the response to the next one.    *)

\* the parser in use was given every piece that was read of the response
\* that is next
Aligned == homeserver.taken = server.parser_next

PipeRead == Aligned /\ StreamRead

PipeComplete == Aligned /\ StreamComplete

\* reads of which the last brings the end of the response and the beginning
\* of the next
PipeStraddle ==
    /\ server.fd_hook /\ server.socket = "open"
    /\ Len(server.receive_queue) >= 2
    /\ Aligned
    /\ \E reads \in ReadLists, parser \in ParserOutcomes,
          response \in StreamResponses(Head(server.receive_queue)),
          ok \in BOOLEAN :
          LET w1 == receive_straddling(World, reads, parser, response, ok)
          IN  /\ Len(w1.server.http_buffer) <= MaxReads
              /\ Len(w1.trace.body) <= MaxReads
              /\ SendOutcome(w1, ok)
              /\ Commit(w1)

\* more of the response arrives whose beginning the parser does not have
PipeUnaligned ==
    /\ server.fd_hook /\ server.socket = "open"
    /\ server.receive_queue # <<>>
    /\ ~Aligned
    /\ Commit(receive_unaligned(World))

PipeNext ==
    \/ Connect
    \/ Disconnect
    \/ ConnectCbOk
    \/ ConnectCbFailed
    \/ ReconnectCb
    \/ TimerCb
    \/ PipeRead
    \/ PipeComplete
    \/ PipeStraddle
    \/ PipeUnaligned
    \/ StreamFailure

PipeSpec == Init /\ [][PipeNext]_vars

---------------------------------------------------------------------------
(* Losing the connection with requests in flight: the delivery of          *)
(* responses in pieces, where trace.crowded keeps whether more than one    *)
(* request was in flight when the last read failed.                        *)

StaleFailure ==
    /\ server.fd_hook /\ server.socket = "open"
    /\ \E reads \in SeqsUpTo(BOOLEAN, MaxReads),
          outcome \in {"error", "eof"} :
          /\ reads # <<>> => server.receive_queue # <<>>
          /\ LET w0 == recv(World, reads)
             IN  w0.homeserver.fragments <= MaxReads
          /\ LET w1 == receive_cb(World, reads, outcome, BaseResponse(0),
                                  TRUE)
             IN  Commit([w1 EXCEPT !.trace.crowded =
                                       Len(server.receive_queue) >= 2])

StaleNext ==
    \/ Connect
    \/ Disconnect
    \/ ConnectCbOk
    \/ ConnectCbFailed
    \/ ReconnectCb
    \/ TimerCb
    \/ StreamRead
    \/ StreamComplete
    \/ StaleFailure

StaleSpec == Init /\ [][StaleNext]_vars

---------------------------------------------------------------------------
(* The members of a room and their ranks: sync batches of one membership   *)
(* event or one power-level event for the room.                            *)

\* the display names of a join event: none, or one that is not the short
\* name
DisplayNames == {"", "Al"}

\* power levels on both sides of every threshold of get_prefix_for_level
PowerLevelValues == {0, 1, 49, 50, 99, 100}

\* content.users of an m.room.power_levels event
LevelMaps == UNION {[us -> PowerLevelValues] : us \in SUBSET UserIds}

PowerLevels(event_id, sender, levels) ==
    [BaseEvent("m.room.power_levels", event_id, sender)
        EXCEPT !.users = levels]

\* one batch with one event in the timeline of the room
RankBatch(event) ==
    \E r \in RoomIds :
        LET response == SyncBody(0, <<JoinSection(r, <<>>, <<event>>)>>)
            w1 == matrix_handle_room_info(World, response)
        IN  Commit([w1 EXCEPT !.trace.response = response])

RankJoin ==
    \E u \in UserIds, name \in DisplayNames :
        RankBatch(Membership(940, u, "join", name))

RankLeave ==
    \E u \in UserIds : RankBatch(Membership(941, u, "leave", ""))

RankLevels ==
    \E levels \in LevelMaps : RankBatch(PowerLevels(942, "@a", levels))

RankNext ==
    \/ RankJoin
    \/ RankLeave
    \/ RankLevels

RankSpec == RoomInit /\ [][RankNext]_vars

---------------------------------------------------------------------------
(* The registry of servers: /matrix server add and delete between the      *)
(* commands and the callbacks of the connection.  A callback looks its     *)
(* server up by name, SERVERS[server_name], which raises KeyError for a    *)
(* name that is not in the registry.  The server that was deleted is not   *)
(* added again.                                                            *)

\* len(args) of /matrix server add
AddArgCounts == 1..5

\* /matrix server delete name: servers is the registry, the result the
\* world and the registry behind the command
matrix_server_command_delete(w, servers, name) ==
    IF name \notin servers
    THEN [w |-> Log(w, "prnt_no_such_server", name, 0), servers |-> servers]
    ELSE IF name = ServerName /\ w.server.connected
    THEN [w |-> Log(w, "prnt_cannot_delete", name, 0), servers |-> servers]
    ELSE [w |-> Log(w, "prnt_deleted", name, 0), servers |-> servers \ {name}]

\* /matrix server add with len(args) = argc; set_error is whether a
\* W.config_option_set of the address, port, user or password fails
matrix_server_command_add(w, servers, name, argc, set_error) ==
    IF argc < 2 \/ argc > 4
    THEN [w |-> Log(w, "prnt_add_error", "arguments", 0),
          servers |-> servers]
    ELSE IF name \in servers
    THEN [w |-> Log(w, "prnt_add_error", "exists", 0), servers |-> servers]
    ELSE LET added == servers \cup {name}
         IN  IF set_error
             THEN [w |-> Log(w, "prnt_add_error", "option", 0),
                   servers |-> added \ {name}]
             ELSE [w |-> Log(w, "prnt_added", name, 0), servers |-> added]

RegistryCommit(w, servers) ==
    /\ WithinBounds(w)
    /\ server' = Ranked(w).server
    /\ weechat' = w.weechat
    /\ homeserver' = w.homeserver
    /\ trace' = Ranked(w).trace
    /\ SERVERS' = servers

\* server = SERVERS[server_name] at the head of a callback
Lookup(w, found) ==
    IF ServerName \in SERVERS THEN found ELSE Raise(w, "KeyError")

\* the commands test check_server_existence first
RegistryConnect ==
    Commit(IF ServerName \in SERVERS
           THEN [connect_server(World) EXCEPT !.trace.stopped = FALSE]
           ELSE Log(World, "prnt_no_such_server", ServerName, 0))

RegistryDisconnect ==
    Commit(IF ServerName \in SERVERS
           THEN [disconnect_server(World) EXCEPT !.trace.stopped = TRUE]
           ELSE Log(World, "prnt_no_such_server", ServerName, 0))

RegistryDelete ==
    \E name \in ServerNames :
        LET r == matrix_server_command_delete(World, SERVERS, name)
        IN  RegistryCommit(r.w, r.servers)

RegistryAdd ==
    \E name \in ServerNames, argc \in AddArgCounts, set_error \in BOOLEAN :
        LET r == matrix_server_command_add(World, SERVERS, name, argc,
                                           set_error)
        IN  /\ ServerName \in r.servers => ServerName \in SERVERS
            /\ RegistryCommit(r.w, r.servers)

RegistryConnectCb ==
    /\ weechat.connect_hooks > 0
    /\ \E status \in ConnectStatuses, wrap_ok, ok \in BOOLEAN :
          LET w1 == [World EXCEPT !.weechat.connect_hooks = @ - 1]
              w2 == Lookup(w1, connect_cb(w1, status, wrap_ok, ok))
          IN  /\ SendOutcome(w2, ok)
              /\ Commit(w2)

RegistryReconnectCb ==
    \E i \in DOMAIN weechat.reconnect_timers :
        LET w1 == [World EXCEPT !.weechat.reconnect_timers =
                      SubSeq(@, 1, i - 1) \o SubSeq(@, i + 1, Len(@))]
        IN  Commit(Lookup(w1, reconnect_cb(w1)))

RegistryTimerCb ==
    /\ server.timer_hook
    /\ \E fail_at \in 0..Len(server.send_queue) :
          LET w1 == Lookup(World, matrix_timer_cb(World, fail_at))
          IN  /\ SendOutcome(w1, fail_at = 0)
              /\ Commit(w1)

RegistryNext ==
    \/ RegistryConnect
    \/ RegistryDisconnect
    \/ RegistryDelete
    \/ RegistryAdd
    \/ RegistryConnectCb
    \/ RegistryReconnectCb
    \/ RegistryTimerCb

RegistrySpec == Init /\ [][RegistryNext]_vars

---------------------------------------------------------------------------
(* The properties.  A callback's trace (trace.ev) lists what the callback  *)
(* that led to the state did, in order.                                    *)

Did(op) == \E i \in DOMAIN trace.ev : trace.ev[i].op = op

\* two requests are the same request: the stamps are ranks and may shift
SameRequest(a, b) ==
    /\ a.type = b.type
    /\ a.next_batch = b.next_batch
    /\ a.room_id = b.room_id
    /\ a.txn_id = b.txn_id

\* C1: receive_cb pairs a completed response only with the oldest request of
\* receive_queue: no request transmitted before the paired one was still
\* unanswered when the response was paired.
C1_FifoPairing ==
    \A i \in DOMAIN trace.ev :
        trace.ev[i].op = "pair" => trace.ev[i].n = 0

\* a response was paired while a second request was in flight: the handler
\* transmitted nothing and a request is still unanswered
C1_PairedAmongSeveral ==
    /\ Did("pair")
    /\ ~Did("tx")
    /\ server.receive_queue # <<>>

\* C2: requests are transmitted in the order they were created: whenever a
\* request is transmitted, no request created before it is waiting in
\* send_queue; so a new request is transmitted at once only when nothing
\* waits.
C2_TransmitInOrder ==
    \A i \in DOMAIN trace.ev :
        trace.ev[i].op = "tx" => trace.ev[i].n = 0

\* one tick transmitted a SYNC and then the SEND that was queued behind it
C2_DrainedSyncThenSend ==
    \E i, j \in DOMAIN trace.ev :
        /\ i < j
        /\ trace.ev[i] = Ev("tx", "SYNC", 0)
        /\ trace.ev[j] = Ev("tx", "SEND", 0)

\* receive_cb ended on a read error or on a zero-length read
ReadFailed == Did("prnt_error") \/ Did("prnt_no_data")

\* C3: when receive_cb meets a read error or a zero-length read while a
\* request awaits its response, the connection is torn down, the request is
\* out of receive_queue and at the head of send_queue, ahead of the requests
\* that were queued; both paths give the same queues.
C3_FailedRequestRequeued ==
    [][(server.receive_queue # <<>> /\ ReadFailed') =>
          /\ ~server'.connected
          /\ \A i \in DOMAIN server'.receive_queue :
                ~SameRequest(server'.receive_queue[i],
                             Head(server.receive_queue))
          /\ server'.send_queue # <<>>
          /\ SameRequest(Head(server'.send_queue), Head(server.receive_queue))
          /\ Len(server'.send_queue) = Len(server.send_queue) + 1
          /\ \A i \in DOMAIN server.send_queue :
                SameRequest(server'.send_queue[i + 1], server.send_queue[i])
      ]_vars

\* the callback that led to the state paired a response with a SYNC request
SyncAnswered == Did("pair") /\ trace.paired.type = "SYNC"

\* ... and the response was a 200 whose body decoded
SyncDecoded ==
    /\ SyncAnswered
    /\ trace.response.status = 200
    /\ trace.response.json_ok

Syncs(queue) == {i \in DOMAIN queue : queue[i].type = "SYNC"}

\* C4: handling a 200 sync response whose next_batch equals server.next_batch
\* changes no room, no member, no rendered line and no cursor, and adds
\* exactly one SYNC request, with the unchanged cursor, at the end of
\* send_queue.
C4_SameBatchOnlyResyncs ==
    [][(SyncDecoded' /\ trace'.response.next_batch = server.next_batch) =>
          /\ server'.rooms = server.rooms
          /\ weechat'.lines = weechat.lines
          /\ server'.ignore_event_list = server.ignore_event_list
          /\ server'.next_batch = server.next_batch
          /\ Len(server'.send_queue) = Len(server.send_queue) + 1
          /\ \A i \in DOMAIN server.send_queue :
                SameRequest(server'.send_queue[i], server.send_queue[i])
          /\ LET new == server'.send_queue[Len(server'.send_queue)]
             IN  new.type = "SYNC" /\ new.next_batch = server.next_batch
      ]_vars

\* a response with the cursor of its request, which is the stored one, was
\* handled; its first event sets the name of a room, and the room kept the
\* alias it had
C4_SameBatchWithRoomHandled ==
    /\ SyncDecoded
    /\ trace.response.next_batch = server.next_batch
    /\ trace.response.next_batch = trace.paired.next_batch
    /\ \E i \in DOMAIN trace.response.join :
          /\ trace.response.join[i].timeline # <<>>
          /\ trace.response.join[i].timeline[1] = RoomName(901, "@a", "n")
          /\ server.rooms[trace.response.join[i].room_id].alias # "n"
    /\ \E i \in DOMAIN server.send_queue :
          server.send_queue[i].type = "SYNC"

\* C5: the sync loop is cancelled only by an explicit disconnect: after a
\* response to a SYNC request has been handled, whatever its status and
\* body, a SYNC request is again in send_queue or receive_queue.
C5_SyncLoopGoesOn ==
    SyncAnswered =>
        Syncs(server.send_queue) \cup Syncs(server.receive_queue) # {}

\* the world of the state, as a callback finds it
Here ==
    [server |-> server, weechat |-> weechat, homeserver |-> homeserver,
     trace |-> trace]

\* C6: server.next_batch changes only in the handler of a 200 SYNC response
\* whose cursor differs from the stored one, and then the rooms are the ones
\* the joined and invited sections of that response give; the new cursor is
\* the response's, never the empty one; every other callback leaves it.
C6_CursorOnlyBySync ==
    [][server'.next_batch # server.next_batch =>
          /\ SyncDecoded'
          /\ trace'.response.next_batch # server.next_batch
          /\ server'.next_batch = trace'.response.next_batch
          /\ server'.next_batch # 0
          /\ LET applied == matrix_handle_room_info(Here, trace'.response)
             IN  /\ server'.rooms = applied.server.rooms
                 /\ weechat'.lines = applied.weechat.lines
      ]_vars

\* a sync response moved the cursor from one batch to another and brought a
\* room with it
C6_CursorMoved ==
    /\ SyncDecoded
    /\ server.next_batch = trace.response.next_batch
    /\ trace.response.join # <<>>
    /\ trace.paired.next_batch \notin {0, server.next_batch}

\* the callback that led to the state rendered the event in a room buffer
Rendered(event_id) ==
    \E i \in DOMAIN trace.ev :
        trace.ev[i].op = "render" /\ trace.ev[i].n = event_id

\* C7: an event of an applied sync batch whose id is in
\* server.ignore_event_list is skipped (not rendered) and its id leaves the
\* list; so after one send and the batch that echoes it the list is empty.
C7_IgnoredEventConsumed ==
    [][(SyncDecoded' /\ trace'.response.next_batch # server.next_batch) =>
          \A id \in Range(server.ignore_event_list)
                        \cap Delivered(trace'.response) :
              /\ id \notin Range(server'.ignore_event_list)
              /\ ~Rendered(id)'
      ]_vars

\* the lines of a room buffer that show the event
LinesOf(room_id, event_id) ==
    {i \in DOMAIN weechat.lines[room_id] :
        weechat.lines[room_id][i].event_id = event_id}

\* C8: whatever the order in which the homeserver answers a SYNC and a SEND
\* that are both in flight, the message the user sent is rendered once: the
\* line printed for the answer to the SEND is the only line of the event.
C8_SentMessageRenderedOnce ==
    \A room_id \in DOMAIN weechat.lines, txn_id \in 1..MaxSends :
        Cardinality(LinesOf(room_id, txn_id)) <= 1

\* C9: from reconnect_count = 0, the i-th failed connect in a row schedules
\* the reconnect after (i - 1) * 5 s and leaves reconnect_count = i: 0 s,
\* 5 s, 10 s and 1, 2, 3; a delay of 0 is a connect at once, a longer one a
\* timer; a successful connect_cb leaves reconnect_count = 0.
C9_BackoffDelays ==
    /\ \A i \in DOMAIN trace.consec :
          /\ trace.consec[i].delay = (i - 1) * 5000
          /\ trace.consec[i].count = i
    /\ \A i \in DOMAIN trace.ev :
          trace.ev[i].op = "reconnect" =>
              /\ trace.ev[i].n = (server.reconnect_count - 1) * 5000
              /\ trace.ev[i].n = 0 =>
                    /\ ~Did("hook_timer")
                    /\ Did("hook_connect") \/ server.connected
              /\ trace.ev[i].n > 0 =>
                    /\ ~Did("hook_connect")
                    /\ trace.ev[i - 1] = Ev("hook_timer", "", trace.ev[i].n)
    /\ Did("prnt_connected") => server.reconnect_count = 0

\* three connects in a row have failed, the first with reconnect_count = 0
C9_ThreeFailedConnects ==
    /\ Len(trace.consec) = 3
    /\ Did("reconnect")
    /\ server.reconnect_count = 3

\* the last two events of the timeline of the batch, for a room of the batch
\* with two events or more
LastTwo(section) ==
    <<section.timeline[Len(section.timeline) - 1],
      section.timeline[Len(section.timeline)]>>

IsMembership(event, membership) ==
    event.type = "m.room.member" /\ event.membership = membership

\* C10: after a batch whose timeline ends with a join membership event
\* followed by a leave membership event of the same sender, the sender is not
\* in room.users; with the two events in the opposite order, the sender is.
C10_JoinLeaveOrder ==
    \A i \in DOMAIN trace.response.join :
        LET section == trace.response.join[i]
            users == DOMAIN server.rooms[section.room_id].users
        IN  Len(section.timeline) >= 2 =>
                LET a == LastTwo(section)[1]
                    b == LastTwo(section)[2]
                IN  /\ (/\ IsMembership(a, "join")
                        /\ IsMembership(b, "leave")
                        /\ a.sender = b.sender) => b.sender \notin users
                    /\ (/\ IsMembership(a, "leave")
                        /\ IsMembership(b, "join")
                        /\ a.sender = b.sender) => b.sender \in users

\* the events of the timelines of a batch for a room
TimelineOf(response, room_id) ==
    UNION {Range(response.join[i].timeline) :
              i \in {j \in DOMAIN response.join :
                        response.join[j].room_id = room_id}}

\* the ids the redaction events of a batch name, for a room
Redacts(response, room_id) ==
    {e.redacts : e \in {x \in TimelineOf(response, room_id) :
                            x.type = "m.room.redaction"}}

OnlyRedactions(response, room_id) ==
    \A e \in TimelineOf(response, room_id) : e.type = "m.room.redaction"

IsRedacted(line) ==
    "matrix_redacted" \in line.tags \/ "matrix_new_redacted" \in line.tags

\* the line after the presentation change has been applied to it once
RedactOnce(line) ==
    [line EXCEPT !.tags = @ \cup {"matrix_new_redacted"},
                 !.message = redacted_message(weechat.redaction_type, @)]

\* the last line of the buffer that shows the event
LastLineOf(lines, i) ==
    \A j \in DOMAIN lines : lines[j].event_id = lines[i].event_id => j <= i

\* C11: a batch changes a rendered line only when one of its redaction
\* events names the line's event and the line is not tagged redacted, and
\* then the line is the original rewritten once, however many redactions of
\* the batch name it; a batch of redactions alone adds no line and changes
\* no room, rewrites the last untagged line of every id it names, and
\* changes nothing when no line carries an id it names.
C11_RedactionOnce ==
    [][\A r \in DOMAIN weechat.lines :
          LET old == weechat.lines[r]
              new == weechat'.lines[r]
              targets == Redacts(trace'.response, r)
          IN  /\ Len(new) >= Len(old)
              /\ \A i \in DOMAIN old :
                    /\ new[i] # old[i] =>
                          /\ old[i].event_id \in targets
                          /\ ~IsRedacted(old[i])
                          /\ new[i] = RedactOnce(old[i])
                    /\ (/\ OnlyRedactions(trace'.response, r)
                        /\ old[i].event_id \in targets
                        /\ ~IsRedacted(old[i])
                        /\ LastLineOf(old, i)) => new[i] = RedactOnce(old[i])
              /\ OnlyRedactions(trace'.response, r) =>
                    /\ Len(new) = Len(old)
                    /\ server'.rooms = server.rooms
      ]_vars

\* a batch redacted the rendered message twice and named an id no line
\* carries; the line of the message is tagged and shows one notice
C11_RedactedTwiceInOneBatch ==
    /\ \E i \in DOMAIN trace.response.join :
          trace.response.join[i].timeline =
              <<Redaction(920, "@a", OtherEventId),
                Redaction(921, "@a", OtherEventId),
                Redaction(922, "@a", UnknownEventId)>>
    /\ \E r \in DOMAIN weechat.lines :
          \E i \in DOMAIN weechat.lines[r] :
              /\ weechat.lines[r][i].event_id = OtherEventId
              /\ "matrix_new_redacted" \in weechat.lines[r][i].tags
              /\ weechat.lines[r][i].message =
                     redacted_message(weechat.redaction_type, <<"text">>)

\* the callback that led to the state handled a page of older messages
PageApplied ==
    /\ trace.paired.type = "ROOM_MSG"
    /\ trace.response.status = 200
    /\ trace.response.chunk # <<>>

\* how many lines of the sequence are this line
Copies(lines, line) == Cardinality({i \in DOMAIN lines : lines[i] = line})

\* C12: after a non-empty page of older messages is applied, the room's
\* prev_batch is the end cursor of the response; the buffer holds the lines
\* it held and one line for every event of the page, sorted by date; and of
\* two events of the page the older one, which comes later in the page, is
\* rendered before the newer one, also when both fall in one whole second.
C12_BacklogOrder ==
    [][PageApplied' =>
          LET r == trace'.response.chunk_room
              chunk == trace'.response.chunk
              old == weechat.lines[r]
              new == weechat'.lines[r]
              at(e) == CHOOSE i \in DOMAIN new : new[i].event_id = e.event_id
          IN  /\ server'.rooms[r].prev_batch = trace'.response.end
              /\ Len(new) = Len(old) + Len(chunk)
              /\ \A i \in DOMAIN old : Copies(new, old[i]) = Copies(old, old[i])
              /\ \A i \in DOMAIN chunk :
                    \E j \in DOMAIN new : new[j].event_id = chunk[i].event_id
              /\ \A i, j \in DOMAIN new : i < j => new[i].date <= new[j].date
              /\ \A i, j \in DOMAIN chunk : i < j => at(chunk[j]) < at(chunk[i])
      ]_vars

\* the body fragments the callback that led to the state read
RecvBodies ==
    Cardinality({i \in DOMAIN trace.ev : trace.ev[i].op = "recv_body"})

Pairs == Cardinality({i \in DOMAIN trace.ev : trace.ev[i].op = "pair"})

\* the fragments 1 .. n in the order they arrived
Fragments(n) == [i \in 1..n |-> i]

\* C13: for a response delivered to receive_cb in pieces, the calls that do
\* not bring its end only accumulate: no response is paired or handled and
\* the accumulator holds the fragments read so far, in arrival order; the
\* call that brings its end produces one completed response, whose body is
\* all the fragments of the response in arrival order, and empties the
\* accumulator.
C13_OneCompletionWholeBody ==
    [][LET total == homeserver.fragments + RecvBodies'
       IN  /\ (RecvBodies' > 0 /\ ~Did("pair")' /\ ~ReadFailed') =>
                 /\ server'.http_buffer = Fragments(total)
                 /\ server'.receive_queue = server.receive_queue
                 /\ server'.send_queue = server.send_queue
                 /\ server'.next_batch = server.next_batch
                 /\ server'.access_token = server.access_token
                 /\ server'.connected
           /\ Did("pair")' =>
                 /\ Pairs' = 1
                 /\ trace'.body = Fragments(total)
                 /\ server'.http_buffer = <<>>
                 /\ homeserver'.fragments = 0
      ]_vars

\* a response was completed by a call that read its third body fragment:
\* the first two had arrived in earlier calls
C13_CompletedFromThreeFragments ==
    /\ Did("pair")
    /\ RecvBodies = 1
    /\ trace.body = Fragments(3)

\* C14: receive_queue, the requests transmitted and not answered, holds at
\* most one request: no request is transmitted while a transmitted request
\* waits for its response.
C14_AtMostOneInFlight == Len(server.receive_queue) <= 1

\* C15: between callbacks the server holds a usable socket exactly when
\* server.connected is true: after a successful connect_cb, after a failed
\* TLS wrap, after a read failure, after a denied login and after an
\* explicit disconnect.
C15_SocketIffConnected == (server.socket = "open") <=> server.connected

\* connect_cb got a connection whose TLS wrap failed, after the server had
\* been connected and lost the connection: it is not connected and holds no
\* socket
C15_WrapFailedAfterConnection ==
    /\ Did("reconnect")
    /\ ~Did("prnt_connect_error")
    /\ ~Did("prnt_reconnecting")
    /\ server.send_queue # <<>>
    /\ ~server.connected
    /\ server.socket = "none"

\* the callback that led to the state handled a 403 answer to a LOGIN
LoginDenied ==
    /\ Did("pair")
    /\ trace.paired.type = "LOGIN"
    /\ trace.response.status = 403

\* C16: when a LOGIN is answered with 403 a login error is reported, the
\* transport is torn down (no socket, no fd hook, not connected), the stored
\* credentials and the access token are cleared, and nothing reconnects
\* until the user acts: the maintenance timer is unhooked and no connection
\* attempt or backoff timer is outstanding.
C16_DeniedLoginTornDown ==
    LoginDenied =>
        /\ Did("prnt_login_error")
        /\ ~server.connected
        /\ server.socket = "none"
        /\ ~server.fd_hook
        /\ ~server.timer_hook
        /\ weechat.connect_hooks = 0
        /\ weechat.reconnect_timers = <<>>
        /\ ~server.access_token
        /\ ~server.password

\* the callback that led to the state paired a response with a request
Answered == Did("pair")

\* the queue holds the same requests in the same order
SameQueue(a, b) ==
    /\ Len(a) = Len(b)
    /\ \A i \in DOMAIN a : SameRequest(a[i], b[i])

\* no room, member, rendered line, cursor or ignore list changes in the step
RoomStateKept ==
    /\ server'.rooms = server.rooms
    /\ weechat'.lines = weechat.lines
    /\ server'.next_batch = server.next_batch
    /\ server'.ignore_event_list = server.ignore_event_list

\* C17: when the body of a 200 response does not decode as JSON, whatever
\* the kind of the request, a decode error is printed, no room, member,
\* cursor, credential or ignore list changes, the request is not queued
\* again, and the callback returns without an exception.
C17_DecodeErrorHandled ==
    [][(/\ Answered'
        /\ trace'.response.status = 200
        /\ ~trace'.response.json_ok) =>
          /\ Did("prnt_json_error")'
          /\ trace'.raised = ""
          /\ RoomStateKept
          /\ server'.access_token = server.access_token
          /\ server'.user_id = server.user_id
          /\ SameQueue(server'.send_queue, server.send_queue)
          /\ SameQueue(server'.receive_queue, Tail(server.receive_queue))
      ]_vars

\* the callback printed the diagnostic of the status it was answered with
Diagnosed ==
    LET type == trace.paired.type
        status == trace.response.status
    IN  CASE status = 403 /\ type = "LOGIN" -> Did("prnt_login_error")
          [] status = 403 /\ type = "STATE" ->
                Did("prnt_cant_set_state") /\ server.connected
          [] status = 403 -> Did("prnt_unhandled_403")
          [] OTHER ->
                \E i \in DOMAIN trace.ev :
                    trace.ev[i] = Ev("prnt_unhandled_status", type, status)

\* C18: a response whose status is not 200, and is not 504 to a SYNC,
\* changes no room, member, cursor or ignore list and is answered with a
\* diagnostic: the login error for a 403 to a LOGIN, a non-fatal error that
\* keeps the connection for a 403 to a STATE, the unhandled-403 diagnostic
\* for a 403 to another kind, the unhandled-status diagnostic for every
\* other status and every kind.
C18_UnexpectedStatusDiagnosed ==
    [][(/\ Answered'
        /\ trace'.response.status # 200
        /\ ~(trace'.response.status = 504 /\ trace'.paired.type = "SYNC")) =>
          /\ RoomStateKept
          /\ Diagnosed'
      ]_vars

\* the callback that led to the state handled a 504 answer to a SYNC
SyncBusy == SyncAnswered /\ trace.response.status = 504

\* C19: a 504 answer to a SYNC request puts exactly one new SYNC request,
\* with the stored cursor, at the end of send_queue and changes no room, no
\* member, no line, no cursor, nothing of the connection and not the
\* reconnect counter.
C19_BusySyncReissued ==
    [][SyncBusy' =>
          /\ Len(server'.send_queue) = Len(server.send_queue) + 1
          /\ \A i \in DOMAIN server.send_queue :
                SameRequest(server'.send_queue[i], server.send_queue[i])
          /\ LET new == server'.send_queue[Len(server'.send_queue)]
             IN  new.type = "SYNC" /\ new.next_batch = server.next_batch
          /\ SameQueue(server'.receive_queue, Tail(server.receive_queue))
          /\ RoomStateKept
          /\ server'.connected = server.connected
          /\ server'.connecting = server.connecting
          /\ server'.socket = server.socket
          /\ server'.fd_hook = server.fd_hook
          /\ server'.timer_hook = server.timer_hook
          /\ server'.reconnect_count = server.reconnect_count
          /\ server'.access_token = server.access_token
      ]_vars

\* a sync that had moved the cursor was answered with 504 and a SYNC with
\* that cursor waits in send_queue
C19_BusyAfterCursorMoved ==
    /\ SyncBusy
    /\ server.next_batch # 0
    /\ server.send_queue # <<>>
    /\ server.send_queue[Len(server.send_queue)].type = "SYNC"
    /\ server.send_queue[Len(server.send_queue)].next_batch
           = server.next_batch

Resets ==
    Cardinality({i \in DOMAIN trace.ev : trace.ev[i].op = "reset_parser"})

\* C20: a server that is not connected, whether after a read error, a
\* zero-length read, a denied login or the disconnect command, and whether
\* or not part of a body had been accumulated, has an empty accumulator and
\* an empty receive_queue, so the next connection starts with both empty;
\* and the accumulator is emptied once for every response that is paired,
\* right after the pairing (a second time only when the handler
\* disconnects).
C20_DisconnectDiscards ==
    /\ ~server.connected =>
          /\ server.http_buffer = <<>>
          /\ server.receive_queue = <<>>
          /\ homeserver.fragments = 0
    /\ \A i \in DOMAIN trace.ev :
          trace.ev[i].op = "pair" =>
              /\ i < Len(trace.ev)
              /\ trace.ev[i + 1].op = "reset_parser"
              /\ Resets = IF Did("prnt_disconnected") THEN 2 ELSE 1

\* a call of receive_cb read a fragment of a body and then failed: the
\* server is disconnected and nothing is left of the response
C20_FailedWithPartialBody ==
    /\ RecvBodies > 0
    /\ ReadFailed
    /\ ~server.connected
    /\ server.http_buffer = <<>>

\* the requests the callback that led to the state transmitted
TxCount == Cardinality({i \in DOMAIN trace.ev : trace.ev[i].op = "tx"})

\* the requests of old from the d-th on are in new, together and in the
\* same order, behind k other requests
KeptFrom(old, new, d, k) ==
    /\ Len(new) >= k + Len(old) - d
    /\ \A i \in (d + 1)..Len(old) : SameRequest(new[k + i - d], old[i])

\* C21: a request leaves send_queue only by being transmitted: over every
\* callback, a disconnect and the following connect included, the requests
\* of send_queue that the callback did not transmit are still in send_queue
\* in the same relative order; and a tick that finds requests waiting on a
\* connected server and meets no write error transmits all of them.
C21_QueuedSurviveDisconnect ==
    [][/\ \E d \in 0..Len(server.send_queue),
             k \in 0..Len(server'.send_queue) :
             /\ d <= TxCount'
             /\ KeptFrom(server.send_queue, server'.send_queue, d, k)
       /\ (/\ server.connected
           /\ server.send_queue # <<>>
           /\ TxCount' > 0
           /\ ~Did("tx_failed")') =>
              /\ server'.send_queue = <<>>
              /\ TxCount' = Len(server.send_queue)
      ]_vars

\* one tick transmitted a SYNC and then a LOGIN: the SYNC was queued before
\* the server was disconnected and lost its token, the LOGIN by the connect
\* that followed
C21_SentAfterReconnect ==
    \E i, j \in DOMAIN trace.ev :
        /\ i < j
        /\ trace.ev[i].op = "tx" /\ trace.ev[i].kind = "SYNC"
        /\ trace.ev[j].op = "tx" /\ trace.ev[j].kind = "LOGIN"

\* what the callback that led to the state printed for the user
Printed ==
    {i \in DOMAIN trace.ev :
        trace.ev[i].op \in
            {"prnt_error", "prnt_not_connected", "prnt_room_encrypted",
             "prnt_event_not_implemented", "prnt_invited", "render"}}

Transmitted(w) == Len(w.send_queue) + Len(w.receive_queue)

\* the callback that led to the state was room_input_cb on an encrypted room
InputOnEncrypted ==
    \E i \in DOMAIN trace.ev :
        trace.ev[i] = Ev("return", "WEECHAT_RC_OK", 0)

EncryptedRooms(s) == {r \in DOMAIN s.rooms : s.rooms[r].encrypted}

\* C22: while a room is marked encrypted, room_input_cb creates and queues
\* no SEND request for it and tells the user that the line was refused; and
\* a room that is marked encrypted stays marked.
C22_EncryptedInputRefused ==
    [][/\ InputOnEncrypted' =>
             /\ server'.send_queue = server.send_queue
             /\ server'.receive_queue = server.receive_queue
             /\ homeserver'.sends = homeserver.sends
             /\ Printed' # {}
       /\ EncryptedRooms(server) \subseteq EncryptedRooms(server')
      ]_vars

\* C22 without the user-visible outcome
C22_EncryptedInputNotSent ==
    [][/\ InputOnEncrypted' =>
             /\ server'.send_queue = server.send_queue
             /\ server'.receive_queue = server.receive_queue
             /\ homeserver'.sends = homeserver.sends
       /\ EncryptedRooms(server) \subseteq EncryptedRooms(server')
      ]_vars

\* a line was typed in an encrypted room that batches and pages had
\* reached after the flag was set
C22_TypedInEncryptedRoom ==
    /\ InputOnEncrypted
    /\ \E r \in EncryptedRooms(server) : Len(weechat.lines[r]) >= 2

\* the callback that led to the state started a connection attempt, at once
\* or by a backoff timer
AttemptStarted == Did("hook_connect") \/ Did("hook_timer")

SyncSent ==
    \E i \in DOMAIN trace.ev :
        trace.ev[i].op = "tx" /\ trace.ev[i].kind = "SYNC"

\* C23: from an explicit disconnect command until an explicit connect, no
\* callback transmits a sync request or starts a connection attempt,
\* whether the server was connected, connecting or waiting in backoff when
\* the command was given.
C23_DisconnectHolds ==
    [][trace'.stopped => ~AttemptStarted' /\ ~SyncSent']_vars

\* nothing is hooked for the server: no timer, no connection attempt, no
\* backoff timer, no socket
Unhooked ==
    /\ ~server.connected
    /\ ~server.timer_hook
    /\ ~server.fd_hook
    /\ weechat.connect_hooks = 0
    /\ weechat.reconnect_timers = <<>>

\* C23 for a command given while connected: the command unhooks everything,
\* and with nothing hooked nothing happens until the connect command
C23_ConnectedDisconnectHolds ==
    [][/\ (/\ server.connected
           /\ trace'.stopped
           /\ trace'.ev = <<Ev("reset_parser", "", 0),
                            Ev("prnt_disconnected", "", 0)>>) => Unhooked'
       /\ (Unhooked /\ trace'.stopped) =>
              /\ Unhooked'
              /\ ~AttemptStarted' /\ ~SyncSent'
      ]_vars

\* the transmissions of the callback that led to the state, in order
TxEvents == SelectSeq(trace.ev, LAMBDA e : e.op = "tx")

\* the callback is a tick that found requests waiting on a connected server:
\* with requests waiting, only the tick calls send()
Drained ==
    /\ server.connected
    /\ server.send_queue # <<>>
    /\ Did("tx")' \/ Did("tx_failed")'

\* C24: a tick on a connected server transmits the requests of send_queue
\* from the head, in order; when the k-th transmission fails the tick stops
\* and send_queue is the old queue from the k-th request on; when none fails
\* send_queue is empty.
C24_DrainInOrder ==
    [][Drained =>
          LET old == server.send_queue
              new == server'.send_queue
              done == Len(TxEvents')
          IN  /\ done <= Len(old)
              /\ \A i \in 1..done : TxEvents'[i].kind = old[i].type
              /\ IF Did("tx_failed")'
                 THEN /\ done < Len(old)
                      /\ Len(new) = Len(old) - done
                      /\ \A i \in DOMAIN new : SameRequest(new[i], old[done + i])
                 ELSE /\ done = Len(old)
                      /\ new = <<>>
                      /\ Len(server'.receive_queue)
                             = Len(server.receive_queue) + done
                      /\ \A i \in 1..done :
                            SameRequest(
                                server'.receive_queue[
                                    Len(server.receive_queue) + i], old[i])
      ]_vars

\* a tick transmitted the first request waiting, failed on the second and
\* left it waiting
C24_SecondTransmissionFailed ==
    /\ TxEvents # <<>>
    /\ Did("tx_failed")
    /\ server.send_queue # <<>>
    /\ ~Did("pair")

\* C25: a tick starts a connection attempt only when the server is
\* disconnected and no attempt is pending; and whatever the interleaving of
\* the connect command, the ticks, the backoff timers and the connect
\* callbacks, at most one connection attempt or backoff timer is outstanding.
C25_OneAttemptOutstanding ==
    [][/\ Did("prnt_reconnecting")' =>
             ~server.connected /\ Outstanding(Here) = 0
       /\ Outstanding(Here') <= 1
      ]_vars

\* C25 as the script tests it: a tick starts an attempt only when the server
\* is neither connected nor marked connecting
C25_TickTestsTheFlags ==
    [][Did("prnt_reconnecting")' =>
          ~server.connected /\ ~server.connecting]_vars

\* the callback that led to the state handled a page without events
EmptyPageApplied ==
    /\ trace.paired.type = "ROOM_MSG"
    /\ trace.response.status = 200
    /\ trace.response.json_ok
    /\ trace.response.chunk = <<>>

\* C26: a 200 response to a ROOM_MSG request whose chunk is empty is no
\* error and changes nothing: the rooms with their prev_batch and members,
\* the rendered lines, the cursor and the ignore list are what they were,
\* and nothing is printed or raised.
C26_EmptyPageChangesNothing ==
    [][EmptyPageApplied' =>
          /\ RoomStateKept
          /\ server'.send_queue = server.send_queue
          /\ server'.receive_queue = server.receive_queue
          /\ trace'.ev = <<>>
          /\ trace'.raised = ""
      ]_vars

\* an empty page came, with an end cursor that is not the room's, for a
\* room that has lines from a batch and from an earlier page
C26_EmptyPageAfterBacklog ==
    /\ EmptyPageApplied
    /\ \E r \in DOMAIN server.rooms :
          /\ r = trace.response.chunk_room
          /\ server.rooms[r].prev_batch # trace.response.end
          /\ Len(weechat.lines[r]) >= 2

\* the callback that led to the state applied a sync batch with a joined room
BatchApplied == trace.response.join # <<>>

IsCustom(event) == event.event_id = CustomEventId

\* the batch without the events of the unknown type
WithoutCustom(response) ==
    [response EXCEPT
        !.join = [i \in DOMAIN @ |->
                     [@[i] EXCEPT !.timeline =
                         SelectSeq(@, LAMBDA e : ~IsCustom(e))]]]

HasCustom(response) ==
    \E i \in DOMAIN response.join :
        \E j \in DOMAIN response.join[i].timeline :
            IsCustom(response.join[i].timeline[j])

Diagnostics ==
    {i \in DOMAIN trace.ev : trace.ev[i].op = "prnt_event_not_implemented"}

\* C27: an event of a type the script does not know prints the
\* not-implemented diagnostic, once, and changes no room and no member: the
\* rooms, the members and the lines after the batch are those the batch
\* gives without that event, so the events behind it are applied.
C27_UnknownEventSkipped ==
    [][(BatchApplied' /\ HasCustom(trace'.response)) =>
          LET w == matrix_handle_room_info(World,
                                           WithoutCustom(trace'.response))
          IN  /\ server'.rooms = w.server.rooms
              /\ weechat'.lines = w.weechat.lines
              /\ server'.ignore_event_list = w.server.ignore_event_list
              /\ server'.next_batch = server.next_batch
              /\ Cardinality(Diagnostics') = 1
              /\ \A i \in Diagnostics' : trace'.ev[i].n = CustomEventId
      ]_vars

\* a batch began with the unknown event, and the join and the message
\* behind it were applied
C27_AppliedBehindUnknown ==
    /\ BatchApplied
    /\ Len(trace.response.join[1].timeline) = 3
    /\ IsCustom(trace.response.join[1].timeline[1])
    /\ Rendered(OtherEventId)
    /\ "@a" \in DOMAIN server.rooms[trace.response.join[1].room_id].users
    /\ Diagnostics # {}

\* the callback that led to the state applied a sync batch with an invite
\* section
InviteApplied == trace.response.invite # <<>>

\* the ids of the invite membership events of the invite sections, in order
RECURSIVE InviteIds(_)
InviteIds(events) ==
    IF events = <<>> THEN <<>>
    ELSE (IF IsMembership(Head(events), "invite")
          THEN <<Head(events).event_id>> ELSE <<>>)
             \o InviteIds(Tail(events))

RECURSIVE InvitedBy(_)
InvitedBy(invite) ==
    IF invite = <<>> THEN <<>>
    ELSE InviteIds(Head(invite).events) \o InvitedBy(Tail(invite))

Notifications == SelectSeq(trace.ev, LAMBDA e : e.op = "prnt_invited")

\* C28: the invite section of a sync batch creates no room and no buffer
\* and changes no member: the rooms and the lines after the batch are those
\* its joined section alone gives (the old ones when it has none); and one
\* notification is printed for every invite membership event, and nothing
\* else.
C28_InviteOnlyNotifies ==
    [][InviteApplied' =>
          LET response == trace'.response
              w == matrix_handle_room_info(World,
                                           [response EXCEPT !.invite = <<>>])
          IN  /\ server'.rooms = w.server.rooms
              /\ weechat'.lines = w.weechat.lines
              /\ DOMAIN weechat'.lines
                     = DOMAIN weechat.lines
                          \cup {response.join[i].room_id :
                                   i \in DOMAIN response.join}
              /\ response.join = <<>> =>
                    /\ server'.rooms = server.rooms
                    /\ weechat'.lines = weechat.lines
              /\ Len(trace'.ev) = Len(w.trace.ev) + Len(Notifications')
              /\ [i \in DOMAIN Notifications' |-> Notifications'[i].n]
                     = InvitedBy(response.invite)
      ]_vars

\* a batch invited to a room the client is not in, with two invite events,
\* when the client had a room with a member and a line
C28_InvitedTwiceToAnotherRoom ==
    /\ InviteApplied
    /\ Len(Notifications) = 2
    /\ trace.response.invite[1].room_id \notin DOMAIN server.rooms
    /\ \E r \in DOMAIN server.rooms :
          /\ server.rooms[r].users # << >>
          /\ weechat.lines[r] # <<>>

\* the rooms the joined section of a batch names
JoinedIn(response) ==
    {response.join[i].room_id : i \in DOMAIN response.join}

\* C29: a room is created by the first joined section that names its id,
\* with the prev_batch of that section; a prev_batch that is not empty is
\* changed only by a page of older messages, to the end cursor of the page;
\* and no callback removes a room from server.rooms.
C29_RoomCreatedOnce ==
    [][/\ DOMAIN server.rooms \subseteq DOMAIN server'.rooms
       /\ DOMAIN server'.rooms
              = DOMAIN server.rooms \cup JoinedIn(trace'.response)
       /\ \A i \in DOMAIN trace'.response.join :
             LET section == trace'.response.join[i]
             IN  section.room_id \notin DOMAIN server.rooms =>
                    server'.rooms[section.room_id].prev_batch
                        = section.prev_batch
       /\ \A r \in DOMAIN server.rooms :
             (/\ server.rooms[r].prev_batch # 0
              /\ server'.rooms[r].prev_batch # server.rooms[r].prev_batch) =>
                 /\ PageApplied'
                 /\ trace'.response.chunk_room = r
                 /\ server'.rooms[r].prev_batch = trace'.response.end
      ]_vars

\* a later batch named another cursor for a room that had one, after a
\* page had moved the room's cursor
C29_LaterBatchOtherCursor ==
    /\ BatchApplied
    /\ \E r \in DOMAIN server.rooms :
          /\ trace.response.join[1].room_id = r
          /\ trace.response.join[1].prev_batch
                 \notin {0, server.rooms[r].prev_batch}
          /\ server.rooms[r].prev_batch # 0
          /\ \E i \in DOMAIN weechat.lines[r] :
                weechat.lines[r][i].event_id
                    \in {AgedMessage(age).event_id : age \in BacklogAges}

\* the callback that led to the state read the end of a response and the
\* beginning of the next in one piece
Straddled == Did("recv_straddling")

\* C30: with two requests in flight, when one read brings the end of the
\* first response and the beginning of the second, the first response is
\* delivered, complete and to the oldest request, and nothing of the second
\* is lost: what was read of it is with the parser that decodes it.
C30_BothDelivered ==
    [][Straddled' =>
          /\ trace'.raised = ""
          /\ Did("pair")'
          /\ SameRequest(trace'.paired, Head(server.receive_queue))
          /\ server'.connected =>
                homeserver'.taken = server'.parser_next
      ]_vars

\* C30 for the first response, when execute() goes on behind the end of
\* the message: it is paired with the oldest request, with the fragments of
\* its own body in order
C30_FirstDelivered ==
    [][(Straddled' /\ trace'.raised = "") =>
          /\ Did("pair")'
          /\ SameRequest(trace'.paired, Head(server.receive_queue))
          /\ trace'.body = [i \in 1..Len(trace'.body) |-> i]
          /\ Len(server'.receive_queue) >= Len(server.receive_queue) - 1
             \/ ~server'.connected
      ]_vars

\* the requests of the two queues of a server
Queued(s) == s.send_queue \o s.receive_queue

\* no request is twice in the queues: a request is known by its stamp
NoDuplicates(s) ==
    \A i, j \in DOMAIN Queued(s) :
        i # j => Queued(s)[i].creation_time # Queued(s)[j].creation_time

\* the request is in front of send_queue, which got one longer or kept its
\* length, and is not in receive_queue
BackOnce(message, longer) ==
    /\ server'.send_queue # <<>>
    /\ SameRequest(Head(server'.send_queue), message)
    /\ Len(server'.send_queue) = Len(server.send_queue) + longer
    /\ \A i \in DOMAIN server'.receive_queue :
          ~SameRequest(server'.receive_queue[i], message)

\* the transmission of a request that waited failed in the tick
TickFailed ==
    /\ server.connected
    /\ server.send_queue # <<>>
    /\ Did("tx_failed")'

\* C31: no request is twice in send_queue and receive_queue; after a read
\* failure the request that was in flight is once in send_queue and not in
\* receive_queue, and after a failed transmission the request that failed is.
C31_RequeuedOnce ==
    [][/\ NoDuplicates(server')
       /\ (server.receive_queue # <<>> /\ ReadFailed') =>
              BackOnce(Head(server.receive_queue), 1)
       /\ TickFailed =>
              BackOnce(server.send_queue[TxCount' + 1], 0 - TxCount')
      ]_vars

\* C31 without the read that raises socket.error
C31_RequeuedOnceOnEmptyRead ==
    [][/\ NoDuplicates(server')
       /\ (server.receive_queue # <<>> /\ Did("prnt_no_data")') =>
              BackOnce(Head(server.receive_queue), 1)
       /\ TickFailed =>
              BackOnce(server.send_queue[TxCount' + 1], 0 - TxCount')
      ]_vars

C33_OneSyncLoop ==
    Cardinality(Syncs(Queued(server))) <= 1

\* C34: the connection is in one of the states Disconnected, Connecting and
\* Connected: connected and connecting are never both true, and
\* reconnect_count is 0 whenever the server is connected.
C34_OneConnectionState ==
    /\ ~(server.connected /\ server.connecting)
    /\ server.connected => server.reconnect_count = 0

\* the callback that led to the state lost the connection through an error
\* (a read that failed, a zero-length read, a transmission that failed), and
\* the last command of the user was not the disconnect command
LostByError ==
    /\ ReadFailed \/ Did("tx_failed")
    /\ ~server.connected
    /\ ~trace.stopped

\* nothing will call connect(): the tick sees the connecting flag, and no
\* attempt and no backoff timer is pending
Stranded ==
    /\ ~server.connected
    /\ server.connecting
    /\ weechat.connect_hooks = 0
    /\ weechat.reconnect_timers = <<>>

\* C35: whenever the connection is lost through an error and the user has
\* not disconnected, a connection attempt is started in the end (or the
\* server is connected again by an attempt that was pending, or the user
\* disconnects).
C35_AttemptFollowsLoss ==
    LostByError ~> (Did("hook_connect") \/ server.connected \/ trace.stopped)

\* C35: the server is never disconnected with the connecting flag set and
\* no attempt or backoff timer pending.
C35_NeverStranded == ~Stranded

\* the callback that led to the state transmitted a request that is not a
\* LOGIN
OtherThanLoginSent ==
    \E i \in DOMAIN trace.ev :
        trace.ev[i].op = "tx" /\ trace.ev[i].kind # "LOGIN"

\* C36: while server.access_token is empty the only kind of request
\* transmitted is LOGIN: a callback that leaves the token empty has
\* transmitted no SYNC, SEND, STATE, REDACT or backlog request.
C36_OnlyLoginWithoutToken == ~server.access_token => ~OtherThanLoginSent

IsEmptyName(event) == event.type = "m.room.name" /\ event.value = ""

\* the last event of the timeline has been applied to the room
LastApplied(section) ==
    LET last == section.timeline[Len(section.timeline)]
        room == server.rooms[section.room_id]
    IN  /\ IsMembership(last, "join") => last.sender \in DOMAIN room.users
        /\ IsMembership(last, "leave") => last.sender \notin DOMAIN room.users
        /\ (last.type = "m.room.name" /\ last.value # "") =>
               room.alias = last.value

\* C37: an m.room.name event with an empty name does not prevent the events
\* that follow it in the same event list from being applied: the last event
\* of a timeline that has such an event before it is applied.
C37_EventsBehindEmptyName ==
    \A i \in DOMAIN trace.response.join :
        LET section == trace.response.join[i]
        IN  (\E k \in DOMAIN section.timeline :
                IsEmptyName(section.timeline[k])
                    /\ k < Len(section.timeline))
                => LastApplied(section)

\* C37, the part about the event itself: a batch whose only event is an
\* m.room.name event with an empty name changes no room and renders nothing.
C37_EmptyNameChangesNothing ==
    [][(/\ Len(trace'.response.join) = 1
        /\ Len(trace'.response.join[1].timeline) = 1
        /\ IsEmptyName(trace'.response.join[1].timeline[1]))
          => /\ server'.rooms = server.rooms
             /\ weechat'.lines = weechat.lines]_vars

\* the only event of the batch of the callback, when the batch has one
BatchEvent ==
    IF /\ Len(trace.response.join) = 1
       /\ Len(trace.response.join[1].timeline) = 1
    THEN trace.response.join[1].timeline[1]
    ELSE BaseEvent("", 0, "")

MembersOf(room_id) == server.rooms[room_id].users

\* the display name a join event gives: content.displayname, or the short
\* name when there is none
NameGiven(event) ==
    IF event.displayname = "" THEN ShortName(event.sender)
    ELSE event.displayname

\* C38: a join membership event for a sender that is already a member sets
\* the member's display name and keeps its power level and prefix; a
\* power-level event adds and removes no member, changes only the members it
\* names, and sets their prefix to the rank of the level.
C38_JoinKeepsRank ==
    [][\A r \in RoomIds :
          /\ \A u \in DOMAIN MembersOf(r) :
                (IsMembership(BatchEvent', "join") /\ BatchEvent'.sender = u)
                    => /\ u \in DOMAIN MembersOf(r)'
                       /\ MembersOf(r)'[u].display_name = NameGiven(BatchEvent')
                       /\ MembersOf(r)'[u].power_level
                              = MembersOf(r)[u].power_level
                       /\ MembersOf(r)'[u].prefix = MembersOf(r)[u].prefix
          /\ BatchEvent'.type = "m.room.power_levels"
                => DOMAIN MembersOf(r)' = DOMAIN MembersOf(r)]_vars

\* C38, the part about power levels: a power-level event adds and removes
\* no member, changes only the power level and the prefix of the members it
\* names, and the prefix is '&' from 100, '@' from 50, '+' above 0 and none
\* otherwise.
C38_LevelsSetRank ==
    [][\A r \in RoomIds :
          BatchEvent'.type = "m.room.power_levels"
                => /\ DOMAIN MembersOf(r)' = DOMAIN MembersOf(r)
                   /\ \A u \in DOMAIN MembersOf(r) :
                         IF u \in DOMAIN BatchEvent'.users
                         THEN LET level == BatchEvent'.users[u]
                              IN  /\ MembersOf(r)'[u] =
                                        [MembersOf(r)[u] EXCEPT
                                            !.power_level = level,
                                            !.prefix = MembersOf(r)'[u].prefix]
                                  /\ level >= 100
                                        => MembersOf(r)'[u].prefix = "&"
                                  /\ (level >= 50 /\ level < 100)
                                        => MembersOf(r)'[u].prefix = "@"
                                  /\ (level > 0 /\ level < 50)
                                        => MembersOf(r)'[u].prefix = "+"
                                  /\ level <= 0
                                        => MembersOf(r)'[u].prefix = ""
                         ELSE MembersOf(r)'[u] = MembersOf(r)[u]]_vars


\* the callback that led to the state looked up a name that is not in the
\* registry
LookupFailed == trace.raised = "KeyError"

\* the command that led to the state was a server add that failed
AddFailed == Did("prnt_add_error")

\* C39: a server leaves the registry only while it is not connected; no
\* callback looks up a name that is not in the registry; a server add that
\* fails leaves the registry as it was.
C39_DeletedNeverLookedUp ==
    [][/\ (ServerName \in SERVERS /\ ServerName \notin SERVERS')
              => ~server.connected
       /\ ~LookupFailed'
       /\ AddFailed' => SERVERS' = SERVERS]_vars

\* C39, without the callbacks: a connected server is not deleted, and a
\* server add that fails leaves the registry as it was.
C39_RegistryKept ==
    [][/\ (ServerName \in SERVERS /\ ServerName \notin SERVERS')
              => ~server.connected
       /\ AddFailed' => SERVERS' = SERVERS]_vars

===========================================================================
